---- MODULE Spec2Model ----
(***************************************************************************)
(* Incremental ingestion and cache consistency of gold-digger:             *)
(*   gold_fetcher.py  GoldPriceFetcher  (price bars, tables                *)
(*                    gold_prices_15m / gold_prices_30m)                   *)
(*   news_fetcher.py  GoldNewsFetcher   (articles, tables gold_news and    *)
(*                    news_fetch_history)                                  *)
(* Time is counted in minutes.  A bar row is (datetime, ohlcv); the        *)
(* created_at column of the price tables is written and never read by the  *)
(* ingestion code and is left out of the bar rows.                         *)
(***************************************************************************)
EXTENDS Integers, Sequences, FiniteSets, TLC

VARIABLES now, upstream_rev, gold_prices, bars,
          gold_news, news_fetch_history, news, rerun

barsSide == <<gold_prices, bars>>
newsSide == <<gold_news, news_fetch_history, news>>
vars == <<now, upstream_rev, gold_prices, bars,
          gold_news, news_fetch_history, news, rerun>>

(* ---------------------------- bounds ----------------------------------- *)
NumBars == 3      \* bars the provider has per interval
MaxDays == 2      \* largest `days` argument of a cycle
MaxRev == 2       \* revisions of the provider's values
MaxFeed == 1      \* articles the provider returns for one symbol
MaxHistory == 4   \* rows of news_fetch_history after which no cycle starts
MaxTime == 5      \* latest minute of a request made to the resolver alone
TicksPerMinute == 2   \* resolution of the clock when it is finer than a minute

(* ------------------------ program constants ---------------------------- *)
MinutesPerDay == 1440
EpsilonMinutes == 1
MAX_RETRIES == 3
API_DELAY == 1

intervals == <<"15m", "30m">>
IntervalNames == {"15m", "30m"}
BarStep(interval) == IF interval = "15m" THEN 15 ELSE 30

None == <<>>

(* ------------------------ the upstream provider ------------------------ *)
\* Midnight opening day d, counted from the first day a window can reach.
Midnight(d) == MinutesPerDay * (MaxDays + d)

\* The provider's k-th bar of an interval: the last bar of a day and the
\* first bar of the next day, alternately.
BarTime(interval, k) ==
    Midnight((k + 1) \div 2) - (IF k % 2 = 1 THEN BarStep(interval) ELSE 0)

\* Clock readings at which a cycle can start.
NowTimes == {Midnight(1) - 10, Midnight(1) + 1, Midnight(2) - 15}

\* strftime('%Y-%m-%d'): a datetime cut down to its calendar day.
StrfDate(t) == t \div MinutesPerDay

\* ticker.history(start=.., end=.., interval=..): the bars of the calendar
\* days start <= day < end that exist at the time of the call, in time order.
TickerHistory(interval, start, end, clock, rev) ==
    LET all == [k \in 1..NumBars |->
                  [Datetime |-> BarTime(interval, k), OHLCV |-> rev]]
        Wanted(r) == /\ start <= StrfDate(r.Datetime)
                     /\ StrfDate(r.Datetime) < end
                     /\ r.Datetime <= clock
    IN  SelectSeq(all, Wanted)

\* The request fetch_gold_data sends for a sub-window.
UpstreamBars(interval, start_date, end_date, clock, rev) ==
    TickerHistory(interval, StrfDate(start_date),
                  StrfDate(end_date + MinutesPerDay), clock, rev)

(* --------------------------- the bar store ----------------------------- *)
Timestamps(table) == {r.datetime : r \in table}

SetMin(S) == CHOOSE x \in S : \A y \in S : x <= y
SetMax(S) == CHOOSE x \in S : \A y \in S : y <= x

\* SELECT MIN(datetime), MAX(datetime); (None, None) on an empty table or
\* on sqlite3.Error.
get_cached_date_range(table, dbok) ==
    IF dbok /\ table # {}
    THEN <<SetMin(Timestamps(table)), SetMax(Timestamps(table))>>
    ELSE None

\* The body of get_missing_date_ranges on a clock that counts `ticks` units
\* to the minute: timedelta(minutes=1) is EpsilonMinutes * ticks units.
missing_date_ranges(cached, start_date, end_date, ticks) ==
    IF cached = None
    THEN << <<start_date, end_date>> >>
    ELSE (IF start_date < cached[1]
          THEN << <<start_date, cached[1] - EpsilonMinutes * ticks>> >>
          ELSE << >>)
         \o
         (IF end_date > cached[2]
          THEN << <<cached[2] + EpsilonMinutes * ticks, end_date>> >>
          ELSE << >>)

\* The body of get_missing_date_ranges after the coverage has been read.
\* Variant: the sub-windows end and start on the cached bounds themselves.
get_missing_date_ranges_closed(cached, start_date, end_date) ==
    IF cached = None THEN << <<start_date, end_date>> >>
    ELSE (IF start_date < cached[1]
          THEN << <<start_date, cached[1]>> >> ELSE << >>)
         \o (IF end_date > cached[2]
             THEN << <<cached[2], end_date>> >> ELSE << >>)

\* Variant: an empty table is taken for a fully cached one.
get_missing_date_ranges_unguarded(cached, start_date, end_date) ==
    IF cached = None THEN << >>
    ELSE (IF start_date < cached[1]
          THEN << <<start_date, cached[1] - EpsilonMinutes>> >> ELSE << >>)
         \o (IF end_date > cached[2]
             THEN << <<cached[2] + EpsilonMinutes, end_date>> >> ELSE << >>)

\* Variant: a request that starts or ends on a cached bound is taken to
\* reach beyond it.
get_missing_date_ranges_inclusive(cached, start_date, end_date) ==
    IF cached = None THEN << <<start_date, end_date>> >>
    ELSE (IF start_date <= cached[1]
          THEN << <<start_date, cached[1] - EpsilonMinutes>> >> ELSE << >>)
         \o (IF end_date >= cached[2]
             THEN << <<cached[2] + EpsilonMinutes, end_date>> >> ELSE << >>)

get_missing_date_ranges(cached, start_date, end_date) ==
    missing_date_ranges(cached, start_date, end_date, 1)

\* Variant: a plain INSERT into a table without the primary key.
InsertPlain(table, rec) ==
    table \cup {[datetime |-> rec.Datetime, ohlcv |-> rec.OHLCV]}

\* Variant: INSERT OR IGNORE, the stored row is kept.
InsertOrIgnoreBar(table, rec) ==
    IF \E r \in table : r.datetime = rec.Datetime THEN table
    ELSE table \cup {[datetime |-> rec.Datetime, ohlcv |-> rec.OHLCV]}

\* INSERT OR REPLACE of one record: the row holding the same primary key
\* is deleted, then the record is inserted.
InsertOrReplace(table, rec) ==
    {r \in table : r.datetime # rec.Datetime}
        \cup {[datetime |-> rec.Datetime, ohlcv |-> rec.OHLCV]}

\* Variant: every second record of the frame is left out.
RECURSIVE ExecuteManyAlternate(_, _)
ExecuteManyAlternate(table, records) ==
    IF records = << >> THEN table
    ELSE ExecuteManyAlternate(InsertOrReplace(table, Head(records)),
                              IF Len(records) <= 2 THEN << >>
                              ELSE Tail(Tail(records)))

RECURSIVE ExecuteMany(_, _)
ExecuteMany(table, records) ==
    IF records = << >> THEN table
    ELSE ExecuteMany(InsertOrReplace(table, Head(records)), Tail(records))

\* Variant: the table is rewritten from the fetched frame.
save_to_database_overwriting(table, data, dbok) ==
    IF data = None \/ Len(data) = 0 THEN table
    ELSE IF dbok
    THEN {[datetime |-> data[i].Datetime, ohlcv |-> data[i].OHLCV] :
             i \in 1..Len(data)}
    ELSE table

\* save_to_database: one transaction; sqlite3.Error rolls it back.
save_to_database(table, data, dbok) ==
    IF data = None \/ Len(data) = 0 THEN table
    ELSE IF dbok THEN ExecuteMany(table, data)
    ELSE table

(* --------------------------- the bars cycle ---------------------------- *)
\* time.sleep before the first upstream attempt of fetch_gold_data.
FirstSleep == IF API_DELAY > 0 THEN API_DELAY ELSE 0

\* Variant: the delay doubles from one retry to the next.
RetrySleepDoubling(retries) == API_DELAY * 2 ^ (retries - 1)

\* Variant: the sleep is computed before retries is incremented.
RetrySleepBeforeIncrement(retries) == API_DELAY * (retries - 1)

\* time.sleep(config.api_delay * retries) in the retry loop.
RetrySleep(retries) == API_DELAY * retries

\* The locals of fetch_and_cache_gold_prices and fetch_gold_data.  `before`
\* and `dbok` keep, while pc = "saved", the table as it was when
\* save_to_database was entered and whether its transaction went through.
\* For the current sub-window, `calls` counts the calls of ticker.history,
\* `call_gap` is the time slept between the call before the latest one and
\* the latest one, and `backoff` is the time slept in the retry loop.
BarsIdle == [pc |-> "idle", start_date |-> 0, end_date |-> 0, interval |-> 1,
             cached |-> None, missing_ranges |-> << >>, idx |-> 1,
             data |-> None, retries |-> 0, before |-> {}, dbok |-> TRUE,
             calls |-> 0, call_gap |-> 0, backoff |-> 0]

\* Variant: a sub-window that failed ends the cycle.
BarsAdvanceOrAbort(b) ==
    IF b.pc = "retry" \/ ~b.dbok
    THEN BarsIdle
    ELSE IF b.idx < Len(b.missing_ranges)
    THEN [b EXCEPT !.pc = "fetch", !.idx = b.idx + 1, !.data = None,
                   !.retries = 0, !.before = {}, !.dbok = TRUE,
                   !.calls = 0, !.call_gap = 0, !.backoff = 0]
    ELSE IF b.interval < Len(intervals)
    THEN [BarsIdle EXCEPT !.pc = "resolve", !.start_date = b.start_date,
                          !.end_date = b.end_date,
                          !.interval = b.interval + 1]
    ELSE BarsIdle

\* Variant: the coverage is read again before every sub-window.
BarsAdvanceResolvingAgain(b) ==
    IF b.idx < Len(b.missing_ranges)
    THEN [BarsIdle EXCEPT !.pc = "resolve", !.start_date = b.start_date,
                          !.end_date = b.end_date, !.interval = b.interval]
    ELSE IF b.interval < Len(intervals)
    THEN [BarsIdle EXCEPT !.pc = "resolve", !.start_date = b.start_date,
                          !.end_date = b.end_date,
                          !.interval = b.interval + 1]
    ELSE BarsIdle

\* The loop headers of fetch_and_cache_gold_prices: the next sub-window,
\* else the next interval, else the end of the cycle.
BarsAdvance(b) ==
    IF b.idx < Len(b.missing_ranges)
    THEN [b EXCEPT !.pc = "fetch", !.idx = b.idx + 1, !.data = None,
                   !.retries = 0, !.before = {}, !.dbok = TRUE,
                   !.calls = 0, !.call_gap = 0, !.backoff = 0]
    ELSE IF b.interval < Len(intervals)
    THEN [BarsIdle EXCEPT !.pc = "resolve", !.start_date = b.start_date,
                          !.end_date = b.end_date,
                          !.interval = b.interval + 1]
    ELSE BarsIdle

\* The clock moves on between cycles.
Tick ==
    /\ bars.pc = "idle" /\ news.pc = "idle"
    /\ \E t \in NowTimes : t > now /\ now' = t
    /\ UNCHANGED <<upstream_rev, barsSide, newsSide, rerun>>

\* The provider publishes corrected values.
UpstreamRevise ==
    /\ bars.pc = "idle"
    /\ upstream_rev < MaxRev
    /\ upstream_rev' = upstream_rev + 1
    /\ UNCHANGED <<now, barsSide, newsSide, rerun>>

\* fetch_and_cache_gold_prices, up to the first loop iteration.
BarsBeginStep(days) ==
    /\ bars.pc = "idle"
    /\ bars' = [BarsIdle EXCEPT !.pc = "resolve",
                                !.end_date = now,
                                !.start_date = now - days * MinutesPerDay]
    /\ UNCHANGED <<now, upstream_rev, gold_prices, newsSide>>

BarsBegin(days) == BarsBeginStep(days) /\ UNCHANGED rerun

\* missing_ranges = self.get_missing_date_ranges(interval, start, end)
BarsResolveStep(dbok) ==
    /\ bars.pc = "resolve"
    /\ LET cached == get_cached_date_range(
                         gold_prices[intervals[bars.interval]], dbok)
       IN  bars' = [bars EXCEPT
                      !.pc = "resolved",
                      !.cached = cached,
                      !.missing_ranges =
                          get_missing_date_ranges(cached, bars.start_date,
                                                  bars.end_date)]
    /\ UNCHANGED <<now, upstream_rev, gold_prices, newsSide>>

BarsResolve(dbok) == BarsResolveStep(dbok) /\ UNCHANGED rerun

\* Variant: an interval whose coverage could not be read is skipped.
BarsCheckMissingSkippingUnread ==
    /\ bars.pc = "resolved"
    /\ bars' = IF bars.missing_ranges = << >>
                  \/ (bars.cached = None
                        /\ gold_prices[intervals[bars.interval]] # {})
               THEN BarsAdvance(bars)
               ELSE [bars EXCEPT !.pc = "fetch", !.idx = 1]
    /\ UNCHANGED <<now, upstream_rev, gold_prices, newsSide, rerun>>

\* if not missing_ranges: continue
BarsCheckMissing ==
    /\ bars.pc = "resolved"
    /\ bars' = IF bars.missing_ranges = << >>
               THEN BarsAdvance(bars)
               ELSE [bars EXCEPT !.pc = "fetch", !.idx = 1]
    /\ UNCHANGED <<now, upstream_rev, gold_prices, newsSide, rerun>>

CurrentRange == bars.missing_ranges[bars.idx]

CallUpstream ==
    UpstreamBars(intervals[bars.interval], CurrentRange[1], CurrentRange[2],
                 now, upstream_rev)

\* Variant: an empty first answer is retried like an exception.
BarsFetchStepRetryingEmpty(outcome) ==
    /\ bars.pc = "fetch"
    /\ LET data == IF outcome = "data" THEN CallUpstream ELSE << >>
           called == [bars EXCEPT !.calls = bars.calls + 1,
                                  !.call_gap = FirstSleep]
       IN  bars' = IF outcome = "raise" \/ Len(data) = 0
                   THEN [called EXCEPT !.pc = "retry", !.retries = 0]
                   ELSE [called EXCEPT !.pc = "save", !.data = data]
    /\ UNCHANGED <<now, upstream_rev, gold_prices, newsSide>>

\* fetch_gold_data, the first attempt: data, an empty answer (None is
\* returned at once) or an exception (the retry loop is entered).
BarsFetchStep(outcome) ==
    /\ bars.pc = "fetch"
    /\ LET data == IF outcome = "data" THEN CallUpstream ELSE << >>
           called == [bars EXCEPT !.calls = bars.calls + 1,
                                  !.call_gap = FirstSleep]
       IN  bars' = IF outcome = "raise"
                   THEN [called EXCEPT !.pc = "retry", !.retries = 0]
                   ELSE IF Len(data) = 0
                   THEN BarsAdvance(called)
                   ELSE [called EXCEPT !.pc = "save", !.data = data]
    /\ UNCHANGED <<now, upstream_rev, gold_prices, newsSide>>

BarsFetch(outcome) == BarsFetchStep(outcome) /\ UNCHANGED rerun

\* fetch_gold_data, the first attempt, answered by a provider that has not
\* published its k-th bar yet: ticker.history returns the other bars of the
\* requested days.
BarsFetchGappy(k) ==
    /\ bars.pc = "fetch"
    /\ LET Published(r) == r.Datetime # BarTime(intervals[bars.interval], k)
           data == SelectSeq(CallUpstream, Published)
           called == [bars EXCEPT !.calls = bars.calls + 1,
                                  !.call_gap = FirstSleep]
       IN  /\ Len(data) < Len(CallUpstream)
           /\ bars' = IF Len(data) = 0
                      THEN BarsAdvance(called)
                      ELSE [called EXCEPT !.pc = "save", !.data = data]
    /\ UNCHANGED <<now, upstream_rev, gold_prices, newsSide, rerun>>

\* Variant: the loop runs once more.
RetryBudgetLeftInclusive(retries) == retries <= MAX_RETRIES

\* while retries < config.max_retries
RetryBudgetLeft(retries) == retries < MAX_RETRIES

\* One turn of the retry loop of fetch_gold_data.
BarsRetryStep(outcome) ==
    /\ bars.pc = "retry"
    /\ RetryBudgetLeft(bars.retries)
    /\ LET data == IF outcome = "data" THEN CallUpstream ELSE << >>
           retries == bars.retries + 1
           called == [bars EXCEPT !.retries = retries,
                                  !.calls = bars.calls + 1,
                                  !.call_gap = RetrySleep(retries),
                                  !.backoff = bars.backoff
                                                + RetrySleep(retries)]
       IN  bars' = IF outcome # "raise" /\ Len(data) > 0
                   THEN [called EXCEPT !.pc = "save", !.data = data]
                   ELSE called
    /\ UNCHANGED <<now, upstream_rev, gold_prices, newsSide>>

BarsRetry(outcome) == BarsRetryStep(outcome) /\ UNCHANGED rerun

\* The retry loop ends without data: fetch_gold_data returns None.
BarsRetryExhausted ==
    /\ bars.pc = "retry"
    /\ ~RetryBudgetLeft(bars.retries)
    /\ bars' = BarsAdvance(bars)
    /\ UNCHANGED <<now, upstream_rev, gold_prices, newsSide, rerun>>

\* Variant: the save rebuilds the database file, the article table with it.
BarsSaveClearingNews(dbok) ==
    /\ bars.pc = "save"
    /\ gold_prices' =
         [gold_prices EXCEPT ![intervals[bars.interval]] =
              save_to_database(@, bars.data, dbok)]
    /\ bars' = [bars EXCEPT !.pc = "saved", !.dbok = dbok,
                            !.before = gold_prices[intervals[bars.interval]]]
    /\ gold_news' = {}
    /\ UNCHANGED <<now, upstream_rev, news_fetch_history, news, rerun>>

\* self.save_to_database(data, interval)
BarsSave(dbok) ==
    /\ bars.pc = "save"
    /\ gold_prices' =
         [gold_prices EXCEPT ![intervals[bars.interval]] =
              save_to_database(@, bars.data, dbok)]
    /\ bars' = [bars EXCEPT !.pc = "saved", !.dbok = dbok,
                            !.before = gold_prices[intervals[bars.interval]]]
    /\ UNCHANGED <<now, upstream_rev, newsSide, rerun>>

\* Back at the head of the loop over missing_ranges.
BarsNext ==
    /\ bars.pc = "saved"
    /\ bars' = BarsAdvance(bars)
    /\ UNCHANGED <<now, upstream_rev, gold_prices, newsSide, rerun>>

Outcomes == {"data", "empty", "raise"}

(* ------------------------- the news provider --------------------------- *)
\* Text is a sequence of characters.
\* <<title, summary>> of the articles the provider carries, and their links
\* (an entry without a link is given the link '').
Texts == {<< <<"a">>, << >> >>, << <<"a">>, <<"b">> >>,
          << <<"a", "b">>, << >> >>}
Links == {<< >>, <<"x">>}

\* One entry of ticker.news.  pubDate is <<t>> for an ISO string that
\* denotes the minute t and << >> for a string fromisoformat rejects.
RawArticles ==
    {[title |-> t[1], summary |-> t[2], link |-> l, pubDate |-> <<0>>] :
        t \in Texts, l \in Links}

\* What ticker.news can return: up to MaxFeed entries.
RECURSIVE FeedsOfLen(_)
FeedsOfLen(n) ==
    IF n = 0 THEN {<< >>}
    ELSE {Append(f, a) : f \in FeedsOfLen(n - 1), a \in RawArticles}

Feeds == UNION {FeedsOfLen(n) : n \in 0..MaxFeed}

\* Entries of ticker.news that are not well formed, next to one that is: a
\* pubDate fromisoformat rejects, no title, no timestamp at all, and an
\* old-format entry whose providerPublishTime fromtimestamp rejects.
MixedArticles ==
    {[title |-> <<"a">>, summary |-> << >>, link |-> <<"x">>,
      pubDate |-> <<0>>],
     [title |-> <<"a">>, summary |-> << >>, link |-> <<"x">>,
      pubDate |-> << >>],
     [summary |-> << >>, link |-> <<"x">>, pubDate |-> <<0>>],
     [title |-> <<"a">>, summary |-> << >>, link |-> <<"x">>],
     [title |-> <<"a">>, summary |-> << >>, link |-> <<"x">>,
      providerPublishTime |-> << >>]}

RECURSIVE MixedFeedsOfLen(_)
MixedFeedsOfLen(n) ==
    IF n = 0 THEN {<< >>}
    ELSE {Append(f, a) : f \in MixedFeedsOfLen(n - 1), a \in MixedArticles}

MixedFeeds == UNION {MixedFeedsOfLen(n) : n \in 1..(MaxFeed + 1)}

symbols == <<"GC=F", "GLD">>
SymbolNames == {"GC=F", "GLD"}

\* The default of fetch_news_for_symbol's max_articles parameter.
max_articles == 50

\* hashlib.md5(f"{title}{summary}{link}"): md5 is taken as one-to-one, so
\* the digest is identified with the string it is computed from.
generate_content_hash(title, summary, link) == title \o summary \o link

\* content.get(key, default)
Get(content, key, default) ==
    IF key \in DOMAIN content THEN content[key] ELSE default

\* The timestamp branch of the per-article loop: pubDate first, a rejected
\* string falling back to datetime.now() in the inner bare except; else
\* providerPublishTime, <<t>> for a number and << >> for a value
\* datetime.fromtimestamp rejects; else datetime.now().
PublishedDate(content, clock) ==
    IF "pubDate" \in DOMAIN content
    THEN (IF Len(content.pubDate) = 1 THEN content.pubDate[1] ELSE clock)
    ELSE IF "providerPublishTime" \in DOMAIN content
         THEN (IF content.providerPublishTime = <<0>> THEN clock
               ELSE content.providerPublishTime[1])
         ELSE clock

\* The per-article try block raises: fromtimestamp on a value it rejects.
ArticleRaises(content) ==
    /\ "pubDate" \notin DOMAIN content
    /\ "providerPublishTime" \in DOMAIN content
    /\ content.providerPublishTime = << >>

\* The body of the per-article loop of fetch_news_for_symbol.
ProcessArticle(article, symbol, clock) ==
    LET title == Get(article, "title", <<"No Title">>)
        summary == Get(article, "summary", << >>)
        link == Get(article, "link", << >>)
    IN  [title |-> title,
         summary |-> summary,
         link |-> link,
         published_date |-> PublishedDate(article, clock),
         symbol |-> symbol,
         content_hash |-> generate_content_hash(title, summary, link)]

Min(a, b) == IF a <= b THEN a ELSE b

\* The per-article loop over news_data[:max_articles]: an article whose
\* processing raises is logged and left out (`continue`).
RECURSIVE ProcessAll(_, _, _)
ProcessAll(news_data, symbol, clock) ==
    IF news_data = << >> THEN << >>
    ELSE (IF ArticleRaises(Head(news_data)) THEN << >>
          ELSE <<ProcessArticle(Head(news_data), symbol, clock)>>)
         \o ProcessAll(Tail(news_data), symbol, clock)

\* fetch_news_for_symbol: every exception ends in `return []`.
fetch_news_for_symbol(symbol, outcome, news_data, clock) ==
    IF outcome = "raise" THEN << >>
    ELSE ProcessAll(SubSeq(news_data, 1, Min(Len(news_data), max_articles)),
                    symbol, clock)

(* -------------------------- the article store -------------------------- *)
\* gold_news: link TEXT UNIQUE, content_hash TEXT UNIQUE.
Conflicts(table, article) ==
    \E r \in table : \/ r.link = article.link
                     \/ r.content_hash = article.content_hash

\* Variant: INSERT OR REPLACE, the conflicting rows give way to the candidate.
InsertOrReplaceArticle(st, article, current_time) ==
    LET kept == {r \in st.table : r.link # article.link
                                  /\ r.content_hash # article.content_hash}
    IN  [table |-> kept \cup
                   {[id |-> Cardinality(st.table) + 1,
                     title |-> article.title,
                     summary |-> article.summary,
                     link |-> article.link,
                     published_date |-> article.published_date,
                     symbol |-> article.symbol,
                     content_hash |-> article.content_hash,
                     created_at |-> current_time,
                     updated_at |-> current_time]},
         saved_count |-> st.saved_count + 1]

\* INSERT OR IGNORE of one article; st is [table, saved_count].
InsertOrIgnore(st, article, current_time) ==
    IF Conflicts(st.table, article) THEN st
    ELSE [table |-> st.table \cup
                    {[id |-> Cardinality(st.table) + 1,
                      title |-> article.title,
                      summary |-> article.summary,
                      link |-> article.link,
                      published_date |-> article.published_date,
                      symbol |-> article.symbol,
                      content_hash |-> article.content_hash,
                      created_at |-> current_time,
                      updated_at |-> current_time]},
          saved_count |-> st.saved_count + 1]

RECURSIVE InsertAll(_, _, _)
InsertAll(st, news_articles, current_time) ==
    IF news_articles = << >> THEN st
    ELSE InsertAll(InsertOrIgnore(st, Head(news_articles), current_time),
                   Tail(news_articles), current_time)

\* save_news_to_database: dberr is "none", "connect" (sqlite3.connect
\* raises: nothing is written, 0 is returned), "commit" (conn.commit
\* raises: the transaction is rolled back, the count is still returned) or
\* "execute" (the INSERT of the first article raises sqlite3.Error, which
\* the inner except logs; the loop goes on and the commit succeeds).
save_news_to_database(table, news_articles, current_time, dberr) ==
    IF news_articles = << >> THEN [table |-> table, saved_count |-> 0]
    ELSE IF dberr = "connect" THEN [table |-> table, saved_count |-> 0]
    ELSE LET st == InsertAll([table |-> table, saved_count |-> 0],
                             IF dberr = "execute" THEN Tail(news_articles)
                             ELSE news_articles,
                             current_time)
         IN  IF dberr = "commit"
             THEN [table |-> table, saved_count |-> st.saved_count]
             ELSE st

\* _record_fetch_history: one INSERT; sqlite3.Error is logged and dropped.
\* Variant: a fetch that brought no article leaves no row.
record_fetch_history_nonempty(history, symbol, articles_count, success, error_message, dbok) ==
    IF dbok /\ articles_count > 0
    THEN Append(history, [symbol |-> symbol, articles_count |-> articles_count,
                          success |-> success,
                          error_message |-> error_message])
    ELSE history

record_fetch_history(history, symbol, articles_count, success, error_message, dbok) ==
    IF dbok
    THEN Append(history, [symbol |-> symbol, articles_count |-> articles_count,
                          success |-> success,
                          error_message |-> error_message])
    ELSE history

(* --------------------------- the news cycle ---------------------------- *)
\* The locals of fetch_and_cache_gold_news.  `failed` keeps the symbols of
\* this cycle whose upstream call raised; `before` and `dberr` keep, while
\* pc = "record", gold_news as it was when save_news_to_database was entered
\* and the store error it met.  `calls` counts the readings of ticker.news
\* for the current symbol, `gap` is the time slept since the latest reading
\* and `call_gap` the time slept between the reading before the latest one
\* and the latest one.
NoResults == [s \in {} |-> 0]

\* time.sleep before ticker.news in fetch_news_for_symbol.
NewsSleep == IF API_DELAY > 0 THEN API_DELAY ELSE 0

\* time.sleep between two symbols in fetch_and_cache_gold_news.
SymbolSleep(sym) == IF API_DELAY > 0 /\ sym # Len(symbols) THEN API_DELAY ELSE 0

NewsIdle == [pc |-> "idle", sym |-> 1, news_articles |-> << >>,
             results |-> NoResults, failed |-> {}, before |-> {},
             dberr |-> "none", calls |-> 0, gap |-> 0, call_gap |-> 0,
             news_data |-> << >>]

NewsBeginStep ==
    /\ news.pc = "idle"
    /\ Len(news_fetch_history) + Len(symbols) <= MaxHistory
    /\ news' = [NewsIdle EXCEPT !.pc = "fetch"]
    /\ UNCHANGED <<now, upstream_rev, barsSide, gold_news,
                   news_fetch_history>>

NewsBegin == NewsBeginStep /\ UNCHANGED rerun

\* Variant: a symbol the audit log shows as fetched is not fetched again.
NewsFetchStepOncePerSymbol(outcome, news_data) ==
    /\ news.pc = "fetch"
    /\ LET fetched == \E i \in 1..Len(news_fetch_history) :
                          /\ news_fetch_history[i].symbol = symbols[news.sym]
                          /\ news_fetch_history[i].success
       IN  news' = [news EXCEPT
                      !.pc = "save",
                      !.calls = news.calls + 1,
                      !.call_gap = news.gap + NewsSleep,
                      !.gap = 0,
                      !.failed = IF outcome = "raise"
                                 THEN news.failed \cup {symbols[news.sym]}
                                 ELSE news.failed,
                      !.news_data = IF outcome = "raise" THEN << >>
                                    ELSE news_data,
                      !.news_articles =
                          IF fetched THEN << >>
                          ELSE fetch_news_for_symbol(symbols[news.sym],
                                                     outcome, news_data, now)]
    /\ UNCHANGED <<now, upstream_rev, barsSide, gold_news,
                   news_fetch_history>>

\* news_articles = self.fetch_news_for_symbol(symbol, max_articles)
NewsFetchStep(outcome, news_data) ==
    /\ news.pc = "fetch"
    /\ news' = [news EXCEPT
                  !.pc = "save",
                  !.calls = news.calls + 1,
                  !.call_gap = news.gap + NewsSleep,
                  !.gap = 0,
                  !.failed = IF outcome = "raise"
                             THEN news.failed \cup {symbols[news.sym]}
                             ELSE news.failed,
                  !.news_data = IF outcome = "raise" THEN << >>
                                ELSE news_data,
                  !.news_articles =
                      fetch_news_for_symbol(symbols[news.sym], outcome,
                                            news_data, now)]
    /\ UNCHANGED <<now, upstream_rev, barsSide, gold_news,
                   news_fetch_history>>

NewsFetch(outcome, news_data) ==
    NewsFetchStep(outcome, news_data) /\ UNCHANGED rerun

\* saved_count = self.save_news_to_database(news_articles);
\* results[symbol] = saved_count
NewsSave(dberr) ==
    /\ news.pc = "save"
    /\ LET st == save_news_to_database(gold_news, news.news_articles, now,
                                       dberr)
       IN  /\ gold_news' = st.table
           /\ news' = [news EXCEPT
                         !.pc = "record",
                         !.before = gold_news,
                         !.dberr = dberr,
                         !.results = [s \in DOMAIN news.results
                                            \cup {symbols[news.sym]} |->
                                        IF s = symbols[news.sym]
                                        THEN st.saved_count
                                        ELSE news.results[s]]]
    /\ UNCHANGED <<now, upstream_rev, barsSide, news_fetch_history, rerun>>

\* self._record_fetch_history(symbol, len(news_articles), True, None), then
\* the next symbol or `return results`.
NewsRecord(dbok) ==
    /\ news.pc = "record"
    /\ news_fetch_history' =
         record_fetch_history(news_fetch_history, symbols[news.sym],
                              Len(news.news_articles), TRUE, None, dbok)
    /\ news' = IF news.sym < Len(symbols)
               THEN [news EXCEPT !.pc = "fetch", !.sym = news.sym + 1,
                                 !.news_articles = << >>,
                                 !.news_data = << >>,
                                 !.before = {},
                                 !.dberr = "none",
                                 !.calls = 0,
                                 !.gap = news.gap + SymbolSleep(news.sym)]
               ELSE [news EXCEPT !.pc = "done"]
    /\ UNCHANGED <<now, upstream_rev, barsSide, gold_news, rerun>>

\* The caller has taken the returned results.
NewsReturn ==
    /\ news.pc = "done"
    /\ news' = NewsIdle
    /\ UNCHANGED <<now, upstream_rev, barsSide, gold_news,
                   news_fetch_history, rerun>>

DbErrors == {"none", "connect", "commit"}

(* ------------------------- the specifications -------------------------- *)
\* `rerun` is bookkeeping of the specifications and is never read by the
\* program: the feed a run exercises, and for the repeated-cycle experiment
\* of SpecIdem the phase (0 before the first run, 1 first run, 2 second
\* run), the days argument, the provider's answer to every request made so
\* far, and the store as the first run left it.
NoRerun == [feed |-> "none", phase |-> 0, days |-> 0, answers |-> {},
            snap |-> {}]

Init ==
    /\ now \in NowTimes
    /\ upstream_rev = 1
    /\ gold_prices = [i \in IntervalNames |-> {}]
    /\ bars = BarsIdle
    /\ gold_news = {}
    /\ news_fetch_history = << >>
    /\ news = NewsIdle
    /\ rerun = NoRerun

NextBars ==
    \/ Tick
    \/ UpstreamRevise
    \/ \E days \in 1..MaxDays : BarsBegin(days)
    \/ \E dbok \in BOOLEAN : BarsResolve(dbok)
    \/ BarsCheckMissing
    \/ \E o \in Outcomes : BarsFetch(o)
    \/ \E o \in Outcomes : BarsRetry(o)
    \/ BarsRetryExhausted
    \/ \E dbok \in BOOLEAN : BarsSave(dbok)
    \/ BarsNext

\* The price feed alone.
SpecBars == Init /\ [][NextBars]_vars

\* The price feed against a provider whose answers can lack a bar that it
\* publishes later.
NextGaps ==
    \/ NextBars
    \/ \E k \in 1..NumBars : BarsFetchGappy(k)

SpecGaps == Init /\ [][NextGaps]_vars

\* The price feed, with the interpreter running whatever statement is next.
SpecBarsFair == Init /\ [][NextBars]_vars /\ WF_vars(NextBars)

NextNews ==
    \/ Tick
    \/ NewsBegin
    \/ \E o \in {"data", "raise"}, f \in Feeds : NewsFetch(o, f)
    \/ \E e \in DbErrors : NewsSave(e)
    \/ NewsRecord(TRUE)
    \/ NewsReturn

\* The news feed alone.
SpecNews == Init /\ [][NextNews]_vars

\* The news feed against a provider whose entries can be malformed.
NextMixed ==
    \/ Tick
    \/ NewsBegin
    \/ \E f \in MixedFeeds : NewsFetch("data", f)
    \/ \E e \in DbErrors : NewsSave(e)
    \/ NewsRecord(TRUE)
    \/ NewsReturn

SpecMixed == Init /\ [][NextMixed]_vars

\* Both feeds over one store: a run exercises the price feed or the news
\* feed, chosen when it starts.
InitFeeds ==
    /\ now \in NowTimes
    /\ upstream_rev = 1
    /\ gold_prices = [i \in IntervalNames |-> {}]
    /\ bars = BarsIdle
    /\ gold_news = {}
    /\ news_fetch_history = << >>
    /\ news = NewsIdle
    /\ \E f \in {"bars", "news"} : rerun = [NoRerun EXCEPT !.feed = f]

Next ==
    \/ Tick
    \/ rerun.feed = "bars" /\ UpstreamRevise
    \/ \E days \in 1..MaxDays : rerun.feed = "bars" /\ BarsBegin(days)
    \/ \E dbok \in BOOLEAN : BarsResolve(dbok)
    \/ BarsCheckMissing
    \/ \E o \in Outcomes : BarsFetch(o)
    \/ \E o \in Outcomes : BarsRetry(o)
    \/ BarsRetryExhausted
    \/ \E dbok \in BOOLEAN : BarsSave(dbok)
    \/ BarsNext
    \/ rerun.feed = "news" /\ NewsBegin
    \/ \E o \in {"data", "raise"}, f \in Feeds : NewsFetch(o, f)
    \/ \E e \in DbErrors : NewsSave(e)
    \/ NewsRecord(TRUE)
    \/ NewsReturn

Spec == InitFeeds /\ [][Next]_vars

(* ---------------- running a cycle twice (SpecIdem) ---------------------- *)
\* The request fetch_gold_data sends for the current sub-window, as the
\* provider sees it.
BarsRequest ==
    <<intervals[bars.interval], StrfDate(CurrentRange[1]),
      StrfDate(CurrentRange[2] + MinutesPerDay)>>

\* A fixed upstream: a request answered before is answered the same way.
Answered(req, answer) ==
    \A p \in rerun.answers : p[1] = req => p[2] = answer

InRerun == rerun.phase \in {1, 2}

\* Stores the news feed can have left behind: nothing, or one article.
SeedTables ==
    {{}} \cup
    {save_news_to_database({}, <<ProcessArticle(a, sy, t)>>, t, "none").table :
        a \in RawArticles, sy \in SymbolNames, t \in NowTimes}

InitIdem ==
    /\ now \in NowTimes
    /\ upstream_rev = 1
    /\ gold_prices = [i \in IntervalNames |-> {}]
    /\ bars = BarsIdle
    /\ gold_news \in SeedTables
    /\ \A r \in gold_news : r.created_at <= now
    /\ news_fetch_history = << >>
    /\ news = NewsIdle
    /\ \E f \in {"bars", "news"} : rerun = [NoRerun EXCEPT !.feed = f]
    /\ rerun.feed = "bars" => gold_news = {}

\* The first of the two runs of fetch_and_cache_gold_prices.
RerunBarsFirst(days) ==
    /\ rerun.feed = "bars" /\ rerun.phase = 0
    /\ BarsBeginStep(days)
    /\ rerun' = [rerun EXCEPT !.phase = 1, !.days = days]

\* The second run, over the same window, as soon as the first has returned.
RerunBarsSecond ==
    /\ rerun.feed = "bars" /\ rerun.phase = 1
    /\ BarsBeginStep(rerun.days)
    /\ rerun' = [rerun EXCEPT !.phase = 2, !.snap = gold_prices]

RerunBarsFetch(outcome) ==
    /\ InRerun /\ bars.pc = "fetch"
    /\ Answered(BarsRequest, outcome)
    /\ BarsFetchStep(outcome)
    /\ rerun' = [rerun EXCEPT !.answers = @ \cup {<<BarsRequest, outcome>>}]

RerunBarsRetry(outcome) ==
    /\ InRerun /\ bars.pc = "retry"
    /\ Answered(BarsRequest, outcome)
    /\ BarsRetryStep(outcome)
    /\ UNCHANGED rerun

\* The first of the two runs of fetch_and_cache_gold_news.
RerunNewsFirst ==
    /\ rerun.feed = "news" /\ rerun.phase = 0
    /\ news.pc = "idle"
    /\ news' = [NewsIdle EXCEPT !.pc = "fetch"]
    /\ rerun' = [rerun EXCEPT !.phase = 1]
    /\ UNCHANGED <<now, upstream_rev, barsSide, gold_news,
                   news_fetch_history>>

\* The second run, at the same or at a later time.
RerunNewsSecond ==
    /\ rerun.feed = "news" /\ rerun.phase = 1
    /\ news.pc = "idle"
    /\ news' = [NewsIdle EXCEPT !.pc = "fetch"]
    /\ \E t \in NowTimes : t >= now /\ now' = t
    /\ rerun' = [rerun EXCEPT !.phase = 2, !.snap = gold_news]
    /\ UNCHANGED <<upstream_rev, barsSide, gold_news, news_fetch_history>>

\* A failed call carries no entries.
RerunNewsFetch(outcome, news_data) ==
    /\ InRerun /\ news.pc = "fetch"
    /\ outcome = "raise" => news_data = << >>
    /\ Answered(symbols[news.sym], <<outcome, news_data>>)
    /\ NewsFetchStep(outcome, news_data)
    /\ rerun' = [rerun EXCEPT !.answers =
                    @ \cup {<<symbols[news.sym], <<outcome, news_data>> >>}]

\* Before the first run the price feed runs freely; during the two runs
\* the provider is fixed and the store answers every call.
NextIdem ==
    \/ rerun.phase = 0 /\ rerun.feed = "bars" /\ Tick
    \/ rerun.phase = 0 /\ rerun.feed = "bars" /\ UpstreamRevise
    \/ \E days \in 1..MaxDays :
          rerun.phase = 0 /\ rerun.feed = "bars" /\ BarsBegin(days)
    \/ \E o \in Outcomes : rerun.phase = 0 /\ BarsFetch(o)
    \/ \E o \in Outcomes : rerun.phase = 0 /\ BarsRetry(o)
    \/ \E dbok \in BOOLEAN : (rerun.phase = 0 \/ dbok) /\ BarsResolve(dbok)
    \/ BarsCheckMissing
    \/ BarsRetryExhausted
    \/ \E dbok \in BOOLEAN : (rerun.phase = 0 \/ dbok) /\ BarsSave(dbok)
    \/ BarsNext
    \/ \E days \in 1..MaxDays : RerunBarsFirst(days)
    \/ RerunBarsSecond
    \/ \E o \in Outcomes : RerunBarsFetch(o)
    \/ \E o \in Outcomes : RerunBarsRetry(o)
    \/ RerunNewsFirst
    \/ RerunNewsSecond
    \/ \E o \in {"data", "raise"}, f \in Feeds : RerunNewsFetch(o, f)
    \/ NewsSave("none")
    \/ NewsRecord(TRUE)
    \/ NewsReturn

SpecIdem == InitIdem /\ [][NextIdem]_vars

(* ------------- the two feeds, in sequence and concurrently ------------- *)
\* A price cycle and a news cycle run one after the other on an empty
\* store (phase 1); then, on an empty store again and against the same
\* provider, the two run at once (phase 2).  snap is the store phase 1 left.
NoBoth == [feed |-> "both", phase |-> 0, days |-> 0, answers |-> {},
           snap |-> << >>, begun |-> {}, news_answers |-> {}]

Store == <<gold_prices, gold_news, news_fetch_history>>

InitBoth ==
    /\ now \in NowTimes
    /\ upstream_rev = 1
    /\ gold_prices = [i \in IntervalNames |-> {}]
    /\ bars = BarsIdle
    /\ gold_news = {}
    /\ news_fetch_history = << >>
    /\ news = NewsIdle
    /\ rerun = NoBoth

\* fetch_and_cache_gold_prices(days) starts, alone.
SeqBarsBegin(days) ==
    /\ rerun.phase = 0
    /\ BarsBeginStep(days)
    /\ rerun' = [rerun EXCEPT !.phase = 1, !.days = days,
                              !.begun = {"bars"}]

\* fetch_and_cache_gold_news starts once the price cycle has returned.
SeqNewsBegin ==
    /\ rerun.phase = 1 /\ rerun.begun = {"bars"}
    /\ bars.pc = "idle"
    /\ NewsBeginStep
    /\ rerun' = [rerun EXCEPT !.begun = {"bars", "news"}]

\* Both have returned: the store is put aside and a new database file is
\* initialised.
FreshStore ==
    /\ rerun.phase = 1 /\ rerun.begun = {"bars", "news"}
    /\ bars.pc = "idle" /\ news.pc = "idle"
    /\ gold_prices' = [i \in IntervalNames |-> {}]
    /\ gold_news' = {}
    /\ news_fetch_history' = << >>
    /\ rerun' = [rerun EXCEPT !.phase = 2, !.snap = Store, !.begun = {}]
    /\ UNCHANGED <<now, upstream_rev, bars, news>>

\* The same two calls, each from its own thread.
ConcBarsBegin ==
    /\ rerun.phase = 2 /\ "bars" \notin rerun.begun
    /\ BarsBeginStep(rerun.days)
    /\ rerun' = [rerun EXCEPT !.begun = @ \cup {"bars"}]

ConcNewsBegin ==
    /\ rerun.phase = 2 /\ "news" \notin rerun.begun
    /\ NewsBeginStep
    /\ rerun' = [rerun EXCEPT !.begun = @ \cup {"news"}]

\* ticker.news for a symbol, answered in phase 2 as in phase 1; a failed
\* call carries no entries.
BothNewsFetch(outcome, news_data) ==
    /\ InRerun /\ news.pc = "fetch"
    /\ outcome = "raise" => news_data = << >>
    /\ \A p \in rerun.news_answers :
          p[1] = symbols[news.sym] => p[2] = outcome /\ p[3] = news_data
    /\ NewsFetchStep(outcome, news_data)
    /\ rerun' = [rerun EXCEPT !.news_answers =
                    @ \cup {<<symbols[news.sym], outcome, news_data>>}]

NextBoth ==
    \/ \E days \in 1..MaxDays : SeqBarsBegin(days)
    \/ SeqNewsBegin
    \/ FreshStore
    \/ ConcBarsBegin
    \/ ConcNewsBegin
    \/ BarsResolve(TRUE)
    \/ BarsCheckMissing
    \/ \E o \in Outcomes : RerunBarsFetch(o)
    \/ \E o \in Outcomes : RerunBarsRetry(o)
    \/ BarsRetryExhausted
    \/ BarsSave(TRUE)
    \/ BarsNext
    \/ \E o \in {"data", "raise"}, f \in FeedsOfLen(0) \cup FeedsOfLen(1) :
          BothNewsFetch(o, f)
    \/ NewsSave("none")
    \/ NewsRecord(TRUE)
    \/ NewsReturn

SpecBoth == InitBoth /\ [][NextBoth]_vars

(* -------------------------- the resolver alone -------------------------- *)
\* get_missing_date_ranges called with any request start_date <= end_date
\* on a table holding any bars: the request need not be a cycle's window.
ResolverTables ==
    {{[datetime |-> t, ohlcv |-> 1] : t \in {t1, t2}} :
        t1 \in 0..MaxTime, t2 \in 0..MaxTime} \cup {{}}

InitResolver ==
    /\ now \in NowTimes
    /\ upstream_rev = 1
    /\ \E table \in ResolverTables :
          gold_prices = [i \in IntervalNames |->
                           IF i = intervals[1] THEN table ELSE {}]
    /\ \E start_date \in 0..MaxTime, end_date \in 0..MaxTime :
          /\ start_date <= end_date
          /\ bars = [BarsIdle EXCEPT !.pc = "resolve",
                                     !.start_date = start_date,
                                     !.end_date = end_date]
    /\ gold_news = {}
    /\ news_fetch_history = << >>
    /\ news = NewsIdle
    /\ rerun = NoRerun

NextResolver == \E dbok \in BOOLEAN : BarsResolve(dbok)

SpecResolver == InitResolver /\ [][NextResolver]_vars

\* The same on a clock finer than a minute: the bars lie on whole minutes,
\* the bounds of the request, taken from datetime.now(), on any tick.
FineTables ==
    {{[datetime |-> t * TicksPerMinute, ohlcv |-> 1] : t \in {t1, t2}} :
        t1 \in 0..MaxTime, t2 \in 0..MaxTime} \cup {{}}

InitFine ==
    /\ now \in NowTimes
    /\ upstream_rev = 1
    /\ \E table \in FineTables :
          gold_prices = [i \in IntervalNames |->
                           IF i = intervals[1] THEN table ELSE {}]
    /\ \E start_date \in 0..(MaxTime * TicksPerMinute) :
          \E end_date \in start_date..(MaxTime * TicksPerMinute) :
              bars = [BarsIdle EXCEPT !.pc = "resolve",
                                     !.start_date = start_date,
                                     !.end_date = end_date]
    /\ gold_news = {}
    /\ news_fetch_history = << >>
    /\ news = NewsIdle
    /\ rerun = NoRerun

\* missing_ranges = self.get_missing_date_ranges(interval, start, end)
BarsResolveFine(dbok) ==
    /\ bars.pc = "resolve"
    /\ LET cached == get_cached_date_range(
                         gold_prices[intervals[bars.interval]], dbok)
       IN  bars' = [bars EXCEPT
                      !.pc = "resolved",
                      !.cached = cached,
                      !.missing_ranges =
                          missing_date_ranges(cached, bars.start_date,
                                              bars.end_date, TicksPerMinute)]
    /\ UNCHANGED <<now, upstream_rev, gold_prices, newsSide, rerun>>

NextFine == \E dbok \in BOOLEAN : BarsResolveFine(dbok)

SpecFine == InitFine /\ [][NextFine]_vars

(* ------------------ a cycle aborted and started afresh ------------------ *)
\* A cycle runs to its end (phase 1); then, from the store it started
\* from and against the same provider, the cycle is run again, aborted
\* between two units, and followed by a fresh cycle over the same window
\* (phase 2).  start is the store before phase 1, snap the store after it,
\* partial the store the aborted cycle left.
NoResume == [feed |-> "none", phase |-> 0, days |-> 0, answers |-> {},
             snap |-> {}, news_answers |-> {}, start |-> {},
             stage |-> "none", partial |-> {}]

InitResume ==
    /\ now \in NowTimes
    /\ upstream_rev = 1
    /\ gold_prices = [i \in IntervalNames |-> {}]
    /\ bars = BarsIdle
    /\ gold_news \in SeedTables
    /\ \A r \in gold_news : r.created_at <= now
    /\ news_fetch_history = << >>
    /\ news = NewsIdle
    /\ \E f \in {"bars", "news"} : rerun = [NoResume EXCEPT !.feed = f]
    /\ rerun.feed = "bars" => gold_news = {}

\* The uninterrupted cycle starts.
ResumeBarsFirst(days) ==
    /\ rerun.feed = "bars" /\ rerun.phase = 0
    /\ BarsBeginStep(days)
    /\ rerun' = [rerun EXCEPT !.phase = 1, !.days = days,
                              !.start = gold_prices]

\* The store is put back and the cycle that will be aborted starts.
ResumeBarsSecond ==
    /\ rerun.feed = "bars" /\ rerun.phase = 1
    /\ bars.pc = "idle"
    /\ gold_prices' = rerun.start
    /\ bars' = [BarsIdle EXCEPT
                  !.pc = "resolve",
                  !.end_date = now,
                  !.start_date = now - rerun.days * MinutesPerDay]
    /\ rerun' = [rerun EXCEPT !.phase = 2, !.snap = gold_prices,
                              !.stage = "running"]
    /\ UNCHANGED <<now, upstream_rev, newsSide>>

\* The process is stopped before a sub-window is fetched, after one is
\* saved, or before an interval is resolved.
ResumeBarsAbort ==
    /\ rerun.feed = "bars" /\ rerun.phase = 2 /\ rerun.stage = "running"
    /\ bars.pc \in {"resolve", "fetch", "saved"}
    /\ bars' = BarsIdle
    /\ rerun' = [rerun EXCEPT !.stage = "aborted", !.partial = gold_prices]
    /\ UNCHANGED <<now, upstream_rev, gold_prices, newsSide>>

\* A new process runs the cycle over the same window.
ResumeBarsFresh ==
    /\ rerun.feed = "bars" /\ rerun.phase = 2 /\ rerun.stage = "aborted"
    /\ BarsBeginStep(rerun.days)
    /\ rerun' = [rerun EXCEPT !.stage = "fresh"]

ResumeNewsFirst ==
    /\ rerun.feed = "news" /\ rerun.phase = 0
    /\ news.pc = "idle"
    /\ news' = [NewsIdle EXCEPT !.pc = "fetch"]
    /\ rerun' = [rerun EXCEPT !.phase = 1, !.start = gold_news]
    /\ UNCHANGED <<now, upstream_rev, barsSide, gold_news,
                   news_fetch_history>>

ResumeNewsSecond ==
    /\ rerun.feed = "news" /\ rerun.phase = 1
    /\ news.pc = "idle"
    /\ gold_news' = rerun.start
    /\ news' = [NewsIdle EXCEPT !.pc = "fetch"]
    /\ rerun' = [rerun EXCEPT !.phase = 2, !.snap = gold_news,
                              !.stage = "running"]
    /\ UNCHANGED <<now, upstream_rev, barsSide, news_fetch_history>>

\* The process is stopped before a symbol is fetched.
ResumeNewsAbort ==
    /\ rerun.feed = "news" /\ rerun.phase = 2 /\ rerun.stage = "running"
    /\ news.pc = "fetch"
    /\ news' = NewsIdle
    /\ rerun' = [rerun EXCEPT !.stage = "aborted", !.partial = gold_news]
    /\ UNCHANGED <<now, upstream_rev, barsSide, gold_news,
                   news_fetch_history>>

ResumeNewsFresh ==
    /\ rerun.feed = "news" /\ rerun.phase = 2 /\ rerun.stage = "aborted"
    /\ news.pc = "idle"
    /\ news' = [NewsIdle EXCEPT !.pc = "fetch"]
    /\ rerun' = [rerun EXCEPT !.stage = "fresh"]
    /\ UNCHANGED <<now, upstream_rev, barsSide, gold_news,
                   news_fetch_history>>

\* Before the first run the price feed runs freely; from then on the
\* provider is fixed and the store answers every call.
NextResume ==
    \/ rerun.phase = 0 /\ rerun.feed = "bars" /\ Tick
    \/ \E days \in 1..MaxDays :
          rerun.phase = 0 /\ rerun.feed = "bars" /\ BarsBegin(days)
    \/ \E o \in Outcomes : rerun.phase = 0 /\ BarsFetch(o)
    \/ \E o \in Outcomes : rerun.phase = 0 /\ BarsRetry(o)
    \/ BarsResolve(TRUE)
    \/ BarsCheckMissing
    \/ BarsRetryExhausted
    \/ BarsSave(TRUE)
    \/ BarsNext
    \/ \E days \in 1..MaxDays : ResumeBarsFirst(days)
    \/ ResumeBarsSecond
    \/ ResumeBarsAbort
    \/ ResumeBarsFresh
    \/ \E o \in Outcomes : RerunBarsFetch(o)
    \/ \E o \in Outcomes : RerunBarsRetry(o)
    \/ ResumeNewsFirst
    \/ ResumeNewsSecond
    \/ ResumeNewsAbort
    \/ ResumeNewsFresh
    \/ \E o \in {"data", "raise"}, f \in FeedsOfLen(0) \cup FeedsOfLen(1) :
          BothNewsFetch(o, f)
    \/ NewsSave("none")
    \/ NewsRecord(TRUE)
    \/ NewsReturn

SpecResume == InitResume /\ [][NextResume]_vars

(* --------------------- two batches, merged both ways -------------------- *)
\* Frames fetch_gold_data can hand to save_to_database: the provider's
\* answer for some days, at some time, in some revision of its values.
BarBatches(interval) ==
    {TickerHistory(interval, s, e, t, rev) :
        s \in MaxDays..(MaxDays + 1), e \in (MaxDays + 1)..(MaxDays + 2),
        t \in NowTimes, rev \in 1..MaxRev} \ {<< >>}

\* Lists fetch_news_for_symbol can hand to save_news_to_database.
NewsBatches ==
    {fetch_news_for_symbol(sy, "data", f, now) :
        sy \in SymbolNames,
        f \in {g \in Feeds : \A i \in 1..Len(g) : g[i].summary = << >>}}
    \ {<< >>}

NoMerge == [feed |-> "merge", phase |-> 0, kind |-> "news",
            first |-> << >>, second |-> << >>, swapped |-> {},
            before |-> {}, dberr |-> "none"]

\* The two merges go to one table, rerun.kind, which an earlier merge can
\* have filled.
InitMerge ==
    /\ now \in NowTimes
    /\ upstream_rev = 1
    /\ \E k \in IntervalNames \cup {"news"} :
          /\ rerun = [NoMerge EXCEPT !.kind = k]
          /\ \E b \in UNION {BarBatches(i) : i \in IntervalNames} \cup {<< >>} :
                gold_prices = [i \in IntervalNames |->
                                 IF i = k /\ b \in BarBatches(i) \cup {<< >>}
                                 THEN save_to_database({}, b, TRUE) ELSE {}]
          /\ gold_news \in SeedTables
          /\ k # "news" => gold_news = {}
    /\ \A r \in gold_news : r.created_at = now
    /\ bars = BarsIdle
    /\ news_fetch_history = << >>
    /\ news = NewsIdle

\* save_to_database(first, interval), with second waiting; swapped is the
\* table the two calls leave when made the other way round.
MergeBarsFirst(interval, first, second) ==
    /\ rerun.phase = 0 /\ rerun.kind = interval
    /\ gold_prices' = [gold_prices EXCEPT
                         ![rerun.kind] = save_to_database(@, first, TRUE)]
    /\ rerun' = [rerun EXCEPT
                   !.phase = 1, !.first = first, !.second = second,
                   !.swapped =
                       save_to_database(
                           save_to_database(gold_prices[rerun.kind], second,
                                            TRUE),
                           first, TRUE)]
    /\ UNCHANGED <<now, upstream_rev, bars, newsSide>>

\* save_to_database(second, interval)
MergeBarsSecond ==
    /\ rerun.phase = 1 /\ rerun.kind \in IntervalNames
    /\ gold_prices' = [gold_prices EXCEPT
                         ![rerun.kind] =
                             save_to_database(@, rerun.second, TRUE)]
    /\ rerun' = [rerun EXCEPT !.phase = 2]
    /\ UNCHANGED <<now, upstream_rev, bars, newsSide>>

\* save_news_to_database(first), with second waiting.
MergeNewsFirst(first, second) ==
    /\ rerun.phase = 0 /\ rerun.kind = "news"
    /\ gold_news' = save_news_to_database(gold_news, first, now,
                                          "none").table
    /\ rerun' = [rerun EXCEPT
                   !.phase = 1, !.first = first, !.second = second,
                   !.swapped =
                       save_news_to_database(
                           save_news_to_database(gold_news, second, now,
                                                 "none").table,
                           first, now, "none").table]
    /\ UNCHANGED <<now, upstream_rev, barsSide, news_fetch_history, news>>

\* save_news_to_database(second)
MergeNewsSecond ==
    /\ rerun.phase = 1 /\ rerun.kind = "news"
    /\ gold_news' = save_news_to_database(gold_news, rerun.second, now,
                                          "none").table
    /\ rerun' = [rerun EXCEPT !.phase = 2]
    /\ UNCHANGED <<now, upstream_rev, barsSide, news_fetch_history, news>>

NextMerge ==
    \/ \E i \in IntervalNames :
          \E first, second \in BarBatches(i) : MergeBarsFirst(i, first, second)
    \/ MergeBarsSecond
    \/ \E first, second \in NewsBatches : MergeNewsFirst(first, second)
    \/ MergeNewsSecond

SpecMerge == InitMerge /\ [][NextMerge]_vars

(* ----------------------- one merge, store faults ----------------------- *)
\* Lists of up to two articles for one symbol.
PairBatches ==
    {fetch_news_for_symbol(sy, "data", f, now) :
        sy \in SymbolNames,
        f \in {g \in FeedsOfLen(1) \cup FeedsOfLen(2) :
                 \A i \in 1..Len(g) : g[i].summary = << >>}}

\* save_to_database(data, interval) on a store that can fail.
SaveBars(interval, data, dbok) ==
    /\ rerun.phase = 0 /\ rerun.kind = interval
    /\ gold_prices' = [gold_prices EXCEPT
                         ![rerun.kind] = save_to_database(@, data, dbok)]
    /\ rerun' = [rerun EXCEPT
                   !.phase = 1, !.first = data,
                   !.before = gold_prices[rerun.kind],
                   !.dberr = IF dbok THEN "none" ELSE "connect"]
    /\ UNCHANGED <<now, upstream_rev, bars, newsSide>>

\* save_news_to_database(news_articles) on a store that can fail.
SaveNews(news_articles, dberr) ==
    /\ rerun.phase = 0 /\ rerun.kind = "news"
    /\ gold_news' = save_news_to_database(gold_news, news_articles, now,
                                          dberr).table
    /\ rerun' = [rerun EXCEPT
                   !.phase = 1, !.first = news_articles,
                   !.before = gold_news, !.dberr = dberr]
    /\ UNCHANGED <<now, upstream_rev, barsSide, news_fetch_history, news>>

NextSave ==
    \/ \E i \in IntervalNames :
          \E data \in BarBatches(i), dbok \in BOOLEAN : SaveBars(i, data, dbok)
    \/ \E news_articles \in PairBatches, e \in DbErrors \cup {"execute"} :
          SaveNews(news_articles, e)

SpecSave == InitMerge /\ [][NextSave]_vars

(* ------------------- two cycles of one feed at once -------------------- *)
\* Two threads run the same fetch_and_cache_ method on the one database
\* file (the web server is started with threaded=True and its fetch route
\* takes no lock).  `bars` and `news` are the locals of the thread that is
\* running, rerun.other_bars and rerun.other_news those of the thread that
\* is waiting.  A thread is switched out between two statements; a call of
\* save_to_database or save_news_to_database is one SQLite transaction,
\* which the other thread's transaction cannot interleave with: it goes
\* through whole or fails with sqlite3.OperationalError (database is locked).
NoTwo == [feed |-> "none", other_bars |-> BarsIdle, other_news |-> NewsIdle]

InitTwo ==
    /\ now = SetMax(NowTimes)
    /\ upstream_rev = 1
    /\ gold_prices = [i \in IntervalNames |-> {}]
    /\ bars = BarsIdle
    /\ gold_news = {}
    /\ news_fetch_history = << >>
    /\ news = NewsIdle
    /\ \E f \in {"bars", "news"} : rerun = [NoTwo EXCEPT !.feed = f]

\* The interpreter hands the processor to the other thread.
SwitchBars ==
    /\ rerun.feed = "bars"
    /\ bars # rerun.other_bars
    /\ bars' = rerun.other_bars
    /\ rerun' = [rerun EXCEPT !.other_bars = bars]
    /\ UNCHANGED <<now, upstream_rev, gold_prices, newsSide>>

SwitchNews ==
    /\ rerun.feed = "news"
    /\ news # rerun.other_news
    /\ news' = rerun.other_news
    /\ rerun' = [rerun EXCEPT !.other_news = news]
    /\ UNCHANGED <<now, upstream_rev, barsSide, gold_news,
                   news_fetch_history>>

\* The provider publishes corrected values while cycles are running.
UpstreamReviseAnytime ==
    /\ rerun.feed = "bars"
    /\ upstream_rev < MaxRev
    /\ upstream_rev' = upstream_rev + 1
    /\ UNCHANGED <<now, barsSide, newsSide, rerun>>

\* What ticker.news returns to the two threads: entries without a summary.
TwoFeeds ==
    {g \in FeedsOfLen(0) \cup FeedsOfLen(1) :
        \A i \in 1..Len(g) : g[i].summary = << >>}

NextTwo ==
    \/ SwitchBars
    \/ SwitchNews
    \/ UpstreamReviseAnytime
    \/ \E days \in 1..MaxDays : rerun.feed = "bars" /\ BarsBegin(days)
    \/ BarsResolve(TRUE)
    \/ BarsCheckMissing
    \/ \E o \in {"data", "empty"} : BarsFetch(o)
    \/ \E dbok \in BOOLEAN : BarsSave(dbok)
    \/ BarsNext
    \/ rerun.feed = "news" /\ NewsBegin
    \/ \E f \in TwoFeeds : NewsFetch("data", f)
    \/ \E e \in {"none", "connect"} : NewsSave(e)
    \/ NewsRecord(TRUE)
    \/ NewsReturn

SpecTwo == InitTwo /\ [][NextTwo]_vars

(* -------------------- a news cycle and what it reports ------------------ *)
\* The news feed as the only writer of the store; rerun.rows is the number
\* of rows gold_news held when the running cycle began.
NoCount == [feed |-> "news", rows |-> 0]

InitCount ==
    /\ now \in NowTimes
    /\ upstream_rev = 1
    /\ gold_prices = [i \in IntervalNames |-> {}]
    /\ bars = BarsIdle
    /\ gold_news = {}
    /\ news_fetch_history = << >>
    /\ news = NewsIdle
    /\ rerun = NoCount

\* fetch_and_cache_gold_news starts.
CountNewsBegin ==
    /\ NewsBeginStep
    /\ rerun' = [rerun EXCEPT !.rows = Cardinality(gold_news)]

NextCount ==
    \/ Tick
    \/ CountNewsBegin
    \/ \E o \in {"data", "raise"}, f \in Feeds : NewsFetch(o, f)
    \/ \E e \in DbErrors \cup {"execute"} : NewsSave(e)
    \/ NewsRecord(TRUE)
    \/ NewsReturn

SpecCount == InitCount /\ [][NextCount]_vars

(* ------------------ one cycle, two different audit logs ----------------- *)
\* A cycle runs to its end on a store (phase 1); then the tables are put
\* back as they were, news_fetch_history is given other contents, and the
\* cycle runs again at the same time against the same provider (phase 2).
\* start is <<gold_prices, gold_news>> before phase 1 and snap after it, log
\* the audit log before phase 1, trace the sub-windows resolved and the
\* upstream calls made by the running cycle, in order, and first the trace
\* of phase 1.
NoAudit == [feed |-> "none", phase |-> 0, days |-> 0, answers |-> {},
            news_answers |-> {}, start |-> << >>, snap |-> << >>,
            log |-> << >>, trace |-> << >>, first |-> << >>]

\* Audit logs earlier cycles can have left.
Histories ==
    {<< >>} \cup
    {record_fetch_history(<< >>, symbols[1], 0, ok, None, TRUE) :
        ok \in BOOLEAN}

InitAudit ==
    /\ now \in NowTimes
    /\ upstream_rev = 1
    /\ \E s \in MaxDays..(MaxDays + 1), t \in NowTimes :
          gold_prices = [i \in IntervalNames |->
                           save_to_database({},
                               TickerHistory(i, s, MaxDays + 2, t, 1), TRUE)]
    /\ bars = BarsIdle
    /\ gold_news \in SeedTables
    /\ \A r \in gold_news : r.created_at = now
    /\ news_fetch_history \in Histories
    /\ news = NewsIdle
    /\ \E f \in {"bars", "news"} : rerun = [NoAudit EXCEPT !.feed = f]
    /\ rerun.feed = "bars" => gold_news = {}
    /\ rerun.feed = "news" => \A i \in IntervalNames : gold_prices[i] = {}

AuditBarsFirst(days) ==
    /\ rerun.feed = "bars" /\ rerun.phase = 0
    /\ BarsBeginStep(days)
    /\ rerun' = [rerun EXCEPT !.phase = 1, !.days = days,
                              !.start = <<gold_prices, gold_news>>,
                              !.log = news_fetch_history]

\* The tables are put back, the audit log is replaced, the cycle starts.
AuditBarsSecond(history) ==
    /\ rerun.feed = "bars" /\ rerun.phase = 1
    /\ bars.pc = "idle"
    /\ history # rerun.log
    /\ gold_prices' = rerun.start[1]
    /\ gold_news' = rerun.start[2]
    /\ news_fetch_history' = history
    /\ bars' = [BarsIdle EXCEPT
                  !.pc = "resolve",
                  !.end_date = now,
                  !.start_date = now - rerun.days * MinutesPerDay]
    /\ rerun' = [rerun EXCEPT !.phase = 2,
                              !.snap = <<gold_prices, gold_news>>,
                              !.first = rerun.trace, !.trace = << >>]
    /\ UNCHANGED <<now, upstream_rev, news>>

AuditBarsResolve ==
    /\ InRerun
    /\ BarsResolveStep(TRUE)
    /\ rerun' = [rerun EXCEPT !.trace =
                    Append(@, <<"resolve", bars.interval,
                                bars'.missing_ranges>>)]

AuditBarsFetch(outcome) ==
    /\ InRerun /\ bars.pc = "fetch"
    /\ Answered(BarsRequest, outcome)
    /\ BarsFetchStep(outcome)
    /\ rerun' = [rerun EXCEPT
                   !.answers = @ \cup {<<BarsRequest, outcome>>},
                   !.trace = Append(@, <<"call", BarsRequest>>)]

AuditBarsRetry(outcome) ==
    /\ InRerun /\ bars.pc = "retry"
    /\ Answered(BarsRequest, outcome)
    /\ BarsRetryStep(outcome)
    /\ rerun' = [rerun EXCEPT !.trace = Append(@, <<"call", BarsRequest>>)]

AuditNewsFirst ==
    /\ rerun.feed = "news" /\ rerun.phase = 0
    /\ news.pc = "idle"
    /\ news' = [NewsIdle EXCEPT !.pc = "fetch"]
    /\ rerun' = [rerun EXCEPT !.phase = 1,
                              !.start = <<gold_prices, gold_news>>,
                              !.log = news_fetch_history]
    /\ UNCHANGED <<now, upstream_rev, barsSide, gold_news,
                   news_fetch_history>>

AuditNewsSecond(history) ==
    /\ rerun.feed = "news" /\ rerun.phase = 1
    /\ news.pc = "idle"
    /\ history # rerun.log
    /\ gold_prices' = rerun.start[1]
    /\ gold_news' = rerun.start[2]
    /\ news_fetch_history' = history
    /\ news' = [NewsIdle EXCEPT !.pc = "fetch"]
    /\ rerun' = [rerun EXCEPT !.phase = 2,
                              !.snap = <<gold_prices, gold_news>>,
                              !.first = rerun.trace, !.trace = << >>]
    /\ UNCHANGED <<now, upstream_rev, bars>>

\* ticker.news for a symbol, answered in phase 2 as in phase 1; a failed
\* call carries no entries.
AuditNewsFetch(outcome, news_data) ==
    /\ InRerun /\ news.pc = "fetch"
    /\ outcome = "raise" => news_data = << >>
    /\ \A p \in rerun.news_answers :
          p[1] = symbols[news.sym] => p[2] = outcome /\ p[3] = news_data
    /\ NewsFetchStep(outcome, news_data)
    /\ rerun' = [rerun EXCEPT
                   !.news_answers =
                       @ \cup {<<symbols[news.sym], outcome, news_data>>},
                   !.trace = Append(@, <<"call", symbols[news.sym]>>)]

NextAudit ==
    \/ \E days \in 1..MaxDays : AuditBarsFirst(days)
    \/ \E h \in Histories : AuditBarsSecond(h)
    \/ AuditBarsResolve
    \/ BarsCheckMissing
    \/ \E o \in Outcomes : AuditBarsFetch(o)
    \/ \E o \in Outcomes : AuditBarsRetry(o)
    \/ BarsRetryExhausted
    \/ BarsSave(TRUE)
    \/ BarsNext
    \/ AuditNewsFirst
    \/ \E h \in Histories : AuditNewsSecond(h)
    \/ \E o \in {"data", "raise"}, f \in FeedsOfLen(0) \cup FeedsOfLen(1) :
          AuditNewsFetch(o, f)
    \/ NewsSave("none")
    \/ NewsRecord(TRUE)
    \/ NewsReturn

SpecAudit == InitAudit /\ [][NextAudit]_vars

(* ------------------ a bars cycle and what the provider did -------------- *)
\* The price feed with the provider's latest answer kept: rerun.last is
\* "raise", "empty" (no error, no rows) or "rows", rerun.at the statement
\* that made the call ("fetch" for the first attempt, "retry" for the
\* loop), and rerun.ended the sub-windows of the running cycle, as
\* <<interval, idx>>, that an empty first attempt has ended.
NoOutcome == [feed |-> "bars", last |-> "none", at |-> "none", ended |-> {}]

InitOutcome ==
    /\ now \in NowTimes
    /\ upstream_rev = 1
    /\ gold_prices = [i \in IntervalNames |-> {}]
    /\ bars = BarsIdle
    /\ gold_news = {}
    /\ news_fetch_history = << >>
    /\ news = NewsIdle
    /\ rerun = NoOutcome

\* What ticker.history did, as fetch_gold_data sees it.
AnswerOf(outcome) ==
    IF outcome = "raise" THEN "raise"
    ELSE IF outcome = "empty" \/ Len(CallUpstream) = 0 THEN "empty"
    ELSE "rows"

OutcomeBarsBegin(days) ==
    /\ BarsBeginStep(days)
    /\ rerun' = NoOutcome

OutcomeBarsFetch(outcome) ==
    /\ BarsFetchStep(outcome)
    /\ rerun' = [rerun EXCEPT
                   !.last = AnswerOf(outcome), !.at = "fetch",
                   !.ended = IF AnswerOf(outcome) = "empty"
                             THEN @ \cup {<<bars.interval, bars.idx>>}
                             ELSE @]

OutcomeBarsRetry(outcome) ==
    /\ BarsRetryStep(outcome)
    /\ rerun' = [rerun EXCEPT !.last = AnswerOf(outcome), !.at = "retry"]

NextOutcome ==
    \/ Tick
    \/ UpstreamRevise
    \/ \E days \in 1..MaxDays : OutcomeBarsBegin(days)
    \/ \E dbok \in BOOLEAN : BarsResolve(dbok)
    \/ BarsCheckMissing
    \/ \E o \in Outcomes : OutcomeBarsFetch(o)
    \/ \E o \in Outcomes : OutcomeBarsRetry(o)
    \/ BarsRetryExhausted
    \/ \E dbok \in BOOLEAN : BarsSave(dbok)
    \/ BarsNext

SpecOutcome == InitOutcome /\ [][NextOutcome]_vars

(* ------------------------ the price feed on mock data ------------------- *)
\* _get_mock_data: one row per step of the interval from start_date up to
\* end_date (pd.date_range).  Of these rows the model keeps the first
\* NumBars - 1 and the last; the random prices of a frame are taken as one
\* value, rev.
MockData(interval, start_date, end_date, rev) ==
    LET n == (end_date - start_date) \div BarStep(interval) + 1
        all == [k \in 1..n |->
                  [Datetime |-> start_date + (k - 1) * BarStep(interval),
                   OHLCV |-> rev]]
        Kept(r) ==
            \/ r.Datetime < start_date + (NumBars - 1) * BarStep(interval)
            \/ r.Datetime = start_date + (n - 1) * BarStep(interval)
    IN  SelectSeq(all, Kept)

\* fetch_gold_data with config.use_mock_data set: the frame _get_mock_data
\* returns is returned at once, before any sleep; an exception it raises is
\* caught by the `except Exception` of fetch_gold_data, whose retry loop
\* follows.
BarsFetchMock(outcome, rev) ==
    /\ bars.pc = "fetch"
    /\ bars' = IF outcome = "raise"
               THEN [bars EXCEPT !.pc = "retry", !.retries = 0]
               ELSE [bars EXCEPT
                       !.pc = "save",
                       !.data = MockData(intervals[bars.interval],
                                         CurrentRange[1], CurrentRange[2],
                                         rev)]
    /\ UNCHANGED <<now, upstream_rev, gold_prices, newsSide, rerun>>

\* fetch_and_cache_gold_prices(days) is run once.
MockBarsBegin(days) ==
    /\ rerun.phase = 0
    /\ BarsBeginStep(days)
    /\ rerun' = [rerun EXCEPT !.phase = 1, !.days = days]

NextMock ==
    \/ \E days \in 1..MaxDays : MockBarsBegin(days)
    \/ \E dbok \in BOOLEAN : BarsResolve(dbok)
    \/ BarsCheckMissing
    \/ \E o \in {"data", "raise"}, rev \in 1..MaxRev : BarsFetchMock(o, rev)
    \/ \E o \in Outcomes : BarsRetry(o)
    \/ BarsRetryExhausted
    \/ \E dbok \in BOOLEAN : BarsSave(dbok)
    \/ BarsNext

\* The price feed with use_mock_data set.
SpecMock == Init /\ [][NextMock]_vars

(* ------------------------------ claims --------------------------------- *)
CurrentTable == gold_prices[intervals[bars.interval]]

NoDuplicateBars(table) ==
    \A r1, r2 \in table : r1.datetime = r2.datetime => r1 = r2

NoDuplicateArticles(table) ==
    \A r1, r2 \in table : r1.content_hash = r2.content_hash => r1 = r2

DataTimestamps == {bars.data[i].Datetime : i \in 1..Len(bars.data)}

\* C1: with a fixed upstream, a second run of fetch_and_cache_gold_prices
\* over the same window, or of fetch_and_cache_gold_news, leaves the store
\* as the first run left it: the same bars with the same values in each
\* interval table, the same rows in gold_news, and no duplicate bar or
\* article.  It is stated of every state of the second run, its end
\* included.
C1_Idempotent ==
    rerun.phase = 2 =>
        /\ rerun.feed = "bars" =>
              /\ gold_prices = rerun.snap
              /\ \A iv \in IntervalNames : NoDuplicateBars(gold_prices[iv])
        /\ rerun.feed = "news" =>
              /\ gold_news = rerun.snap
              /\ NoDuplicateArticles(gold_news)

\* The second run has fetched bars that are already stored and has written
\* them again.
C1_Witness ==
    /\ rerun.phase = 2
    /\ bars.pc = "saved"
    /\ bars.dbok
    /\ DataTimestamps \subseteq Timestamps(bars.before)

\* C2: for a store with coverage (cached_min, cached_max) and a request
\* start <= end, get_missing_date_ranges returns (start, cached_min - 1
\* minute) if start < cached_min, then (cached_max + 1 minute, end) if
\* end > cached_max, and nothing else; the coverage is the least and the
\* greatest timestamp of the table; for coverage (10:00, 11:00) and request
\* (09:30, 11:30) the result is [(09:30, 09:59), (11:01, 11:30)].
C2_GapResolver ==
    /\ (bars.pc = "resolved" /\ bars.cached # None) =>
          LET cached_min == bars.cached[1]
              cached_max == bars.cached[2]
              m == bars.missing_ranges
              before == bars.start_date < cached_min
              after == bars.end_date > cached_max
          IN  /\ bars.start_date <= bars.end_date
              /\ cached_min \in Timestamps(CurrentTable)
              /\ cached_max \in Timestamps(CurrentTable)
              /\ \A t \in Timestamps(CurrentTable) :
                     cached_min <= t /\ t <= cached_max
              /\ Len(m) = (IF before THEN 1 ELSE 0) + (IF after THEN 1 ELSE 0)
              /\ before => m[1] = <<bars.start_date, cached_min - 1>>
              /\ after => m[Len(m)] = <<cached_max + 1, bars.end_date>>
    /\ get_missing_date_ranges(<<600, 660>>, 570, 690)
          = << <<570, 599>>, <<661, 690>> >>

\* Both edges of the coverage lie inside the request.
C2_Witness ==
    /\ bars.pc = "resolved"
    /\ bars.cached # None
    /\ Len(bars.missing_ranges) = 2

\* C3: when the interval table holds no bar, get_missing_date_ranges
\* returns the one-element list [(start_date, end_date)], both bounds
\* unchanged.
C3_EmptyStore ==
    (bars.pc = "resolved" /\ CurrentTable = {}) =>
        bars.missing_ranges = << <<bars.start_date, bars.end_date>> >>

C3_Witness ==
    /\ bars.pc = "resolved"
    /\ CurrentTable = {}
    /\ bars.interval = 2
    /\ gold_prices["15m"] # {}

\* C6: when save_to_database writes a bar whose timestamp is already in
\* the table, the table afterwards holds exactly one row for that
\* timestamp, carrying the fetched values, and every row of another
\* timestamp is as it was.
C6_ReplaceSemantics ==
    (bars.pc = "saved" /\ bars.dbok) =>
        /\ \A i \in 1..Len(bars.data) :
              {r \in CurrentTable : r.datetime = bars.data[i].Datetime}
                = {[datetime |-> bars.data[i].Datetime,
                    ohlcv |-> bars.data[i].OHLCV]}
        /\ \A r \in bars.before :
              r.datetime \notin DataTimestamps => r \in CurrentTable
        /\ \A r \in CurrentTable :
              r.datetime \notin DataTimestamps => r \in bars.before

\* A stored bar has been fetched again with other values.
C6_Witness ==
    /\ bars.pc = "saved"
    /\ bars.dbok
    /\ \E r \in bars.before : \E i \in 1..Len(bars.data) :
          /\ r.datetime = bars.data[i].Datetime
          /\ r.ohlcv # bars.data[i].OHLCV
          /\ \E q \in CurrentTable :
                q.datetime = r.datetime /\ q.ohlcv = bars.data[i].OHLCV

\* C7: in every reachable state each interval table holds at most one bar
\* per timestamp.
C7_OneBarPerTimestamp ==
    \A iv \in IntervalNames : NoDuplicateBars(gold_prices[iv])

\* A cycle has written a timestamp of the 30m table a second time.
C7_Witness ==
    /\ bars.pc = "saved"
    /\ bars.dbok
    /\ bars.interval = 2
    /\ Timestamps(bars.before) \cap DataTimestamps # {}
    /\ Cardinality(gold_prices["30m"]) >= 2

\* C10: no step removes a bar timestamp from an interval table or a
\* content_hash from gold_news; cached_min never increases and cached_max
\* never decreases.
C10_NeverDeleted ==
    [][/\ \A iv \in IntervalNames :
            /\ Timestamps(gold_prices[iv]) \subseteq Timestamps(gold_prices'[iv])
            /\ gold_prices[iv] # {} =>
                 /\ SetMin(Timestamps(gold_prices'[iv]))
                        <= SetMin(Timestamps(gold_prices[iv]))
                 /\ SetMax(Timestamps(gold_prices'[iv]))
                        >= SetMax(Timestamps(gold_prices[iv]))
       /\ {r.content_hash : r \in gold_news}
              \subseteq {r.content_hash : r \in gold_news'}]_vars

\* A save has changed a table that already held bars.
C10_Witness ==
    /\ bars.pc = "saved"
    /\ bars.before # {}
    /\ CurrentTable # bars.before

(* claims on the article store *)
Candidates == news.news_articles

SameArticle(r, c) ==
    /\ r.title = c.title /\ r.summary = c.summary /\ r.link = c.link
    /\ r.symbol = c.symbol /\ r.content_hash = c.content_hash
    /\ r.published_date = c.published_date

\* C4: two candidates with the same title, summary and link, fetched at
\* different times, leave exactly one row of their content_hash in
\* gold_news once both are ingested.  The first candidate is the one
\* save_news_to_database has just ingested, the second is the same entry
\* fetched for any symbol at any other time and ingested next.
C4_ExactlyOneRow ==
    (news.pc = "record" /\ news.dberr = "none") =>
        \A i \in 1..Len(Candidates) :
          \A sy \in SymbolNames, t \in NowTimes :
            t # now =>
              LET again == [Candidates[i] EXCEPT !.symbol = sy]
                  after == save_news_to_database(gold_news, <<again>>, t,
                                                 "none").table
              IN  Cardinality({r \in after :
                      r.content_hash = Candidates[i].content_hash}) = 1

\* C5: in one cycle, if the upstream fetch of the first symbol fails and
\* that of the second succeeds, then when the cycle returns the second
\* symbol's articles are in gold_news and the news_fetch_history row
\* written for the first symbol has success = false.
C5_PartialFailure ==
    (/\ news.pc = "done"
     /\ symbols[1] \in news.failed
     /\ symbols[2] \notin news.failed
     /\ news.dberr = "none") =>
        /\ \A i \in 1..Len(Candidates) :
              \E r \in gold_news :
                 r.content_hash = Candidates[i].content_hash
        /\ LET row == news_fetch_history[Len(news_fetch_history) - 1]
           IN  row.symbol = symbols[1] /\ row.success = FALSE

\* C8: once an article of content_hash h is stored, a later ingest of a
\* candidate of the same h leaves that row as it is and adds no row.
C8_FirstWriteWins ==
    news.pc = "record" =>
        /\ news.before \subseteq gold_news
        /\ \A i \in 1..Len(Candidates) : \A r \in news.before :
              r.content_hash = Candidates[i].content_hash =>
                 {q \in gold_news : q.content_hash = r.content_hash} = {r}

\* A candidate of a stored content_hash, carrying another symbol, another
\* fetch time or another title, has been ingested.
C8_Witness ==
    /\ news.pc = "record"
    /\ news.dberr = "none"
    /\ \E i \in 1..Len(Candidates) : \E r \in news.before :
          /\ r.content_hash = Candidates[i].content_hash
          /\ r.symbol # Candidates[i].symbol
          /\ r.created_at # now
          /\ r.title # Candidates[i].title

\* C9: save_news_to_database inserts a candidate, and counts it, if and
\* only if no row already in gold_news has its content_hash, whatever its
\* link.
FreshHash(i) ==
    /\ \A r \in news.before : r.content_hash # Candidates[i].content_hash
    /\ \A j \in 1..(i - 1) :
          Candidates[j].content_hash # Candidates[i].content_hash

C9_InsertIffNewFingerprint ==
    (news.pc = "record" /\ news.dberr = "none") =>
        /\ \A i \in 1..Len(Candidates) :
              FreshHash(i) <=>
                 \E r \in gold_news \ news.before :
                    SameArticle(r, Candidates[i])
        /\ news.results[symbols[news.sym]]
              = Cardinality({i \in 1..Len(Candidates) : FreshHash(i)})

C12_BarsFailureRecorded ==
    [][(bars.pc = "retry" /\ bars.retries >= MAX_RETRIES /\ bars' # bars) =>
          /\ Len(news_fetch_history') = Len(news_fetch_history) + 1
          /\ news_fetch_history'[Len(news_fetch_history')].success = FALSE
          /\ news_fetch_history'[Len(news_fetch_history')].error_message
                # None]_vars

\* The bars cycle goes on from the current sub-window: to the next
\* sub-window of the interval if there is one, else to the resolution of
\* the next interval over the same window, else it returns.
BarsContinues ==
    IF bars.idx < Len(bars.missing_ranges)
    THEN /\ bars'.pc = "fetch"
         /\ bars'.idx = bars.idx + 1
         /\ bars'.interval = bars.interval
         /\ bars'.missing_ranges = bars.missing_ranges
    ELSE IF bars.interval < Len(intervals)
    THEN /\ bars'.pc = "resolve"
         /\ bars'.interval = bars.interval + 1
         /\ bars'.start_date = bars.start_date
         /\ bars'.end_date = bars.end_date
    ELSE bars'.pc = "idle"

StopsAtFirstData ==
    [][bars'.calls > bars.calls =>
          bars.pc \in {"fetch", "retry"} /\ bars.data = None]_vars

\* fetch_gold_data returns for every sub-window it is called for.
FetchTerminates ==
    \A iv \in 1..Len(intervals), i \in 1..2 :
        (bars.pc = "fetch" /\ bars.interval = iv /\ bars.idx = i)
           ~> ~(/\ bars.pc \in {"fetch", "retry"}
                /\ bars.interval = iv /\ bars.idx = i)

\* C15 as stated: for one sub-window fetch_gold_data terminates, stops
\* calling upstream at the first attempt that returns data, and makes no
\* more than config.max_retries upstream calls, first attempt included.
C15_WithinMaxRetries ==
    /\ [](bars.calls <= MAX_RETRIES)
    /\ StopsAtFirstData
    /\ FetchTerminates

\* C15 as amended: for one sub-window fetch_gold_data terminates, stops
\* calling upstream at the first attempt that returns data, and makes no
\* more than 1 + config.max_retries upstream calls: the first attempt and
\* up to config.max_retries retries.
C15_FirstAttemptPlusRetries ==
    /\ [](bars.calls <= 1 + MAX_RETRIES)
    /\ StopsAtFirstData
    /\ FetchTerminates

\* The first attempt and every retry of a sub-window have raised.
C15_Witness ==
    /\ bars.pc = "retry"
    /\ bars.calls = 1 + MAX_RETRIES
    /\ bars.data = None

\* C16: when the upstream news call of a symbol fails, it is made again
\* (up to the attempt budget) before the symbol is treated as failed for
\* the cycle: a symbol whose fetch has failed has been called more than
\* once.
C16_NewsFetchRetried ==
    (news.pc = "save" /\ symbols[news.sym] \in news.failed) =>
        news.calls > 1

\* C17: with api_delay > 0, every upstream call (the first bars attempt,
\* every bars retry, every news fetch) comes after a sleep of at least
\* api_delay taken since the call before it.
C17_DelayBeforeEveryCall ==
    API_DELAY > 0 =>
        /\ bars.calls > 0 => bars.call_gap >= API_DELAY
        /\ news.calls > 0 => news.call_gap >= API_DELAY

\* A retry has called upstream right after a failed attempt.
C17_Witness ==
    /\ API_DELAY > 0
    /\ bars.pc = "retry"
    /\ bars.calls = 2
    /\ bars.call_gap = API_DELAY

\* The requested window lies inside the coverage read for the interval.
WindowCached ==
    /\ bars.pc = "resolved"
    /\ bars.cached # None
    /\ bars.cached[1] <= bars.start_date
    /\ bars.end_date <= bars.cached[2]

\* C18: when the requested window lies inside the cached coverage of an
\* interval, the bars cycle makes no upstream call and no store write for
\* that interval: no sub-window is returned, and the cycle passes to the
\* next interval, or returns, with every table as it was.
C18_CachedWindowNoOp ==
    [][/\ bars.pc = "resolve" => gold_prices' = gold_prices
       /\ WindowCached =>
            /\ bars.missing_ranges = << >>
            /\ gold_prices' = gold_prices
            /\ bars'.calls = 0
            /\ bars'.pc \in {"resolve", "idle"}
            /\ bars'.pc = "resolve" => bars'.interval = bars.interval + 1
            /\ bars'.pc = "idle" => bars.interval = Len(intervals)]_vars

\* A cycle asks for a window whose two ends are the two ends of the
\* coverage.
C18_Witness ==
    /\ WindowCached
    /\ bars.cached[1] = bars.start_date
    /\ bars.cached[2] = bars.end_date
    /\ Cardinality(CurrentTable) >= 2

\* Timestamps strictly inside the coverage the resolver read that the table
\* does not hold.
Holes ==
    IF bars.cached = None
    THEN {}
    ELSE {t \in (bars.cached[1] + 1)..(bars.cached[2] - 1) :
            t \notin Timestamps(CurrentTable)}

\* At most two sub-windows, each wholly before or wholly after the coverage.
EdgesOnly ==
    bars.pc \in {"resolved", "fetch", "retry", "save"} =>
        /\ Len(bars.missing_ranges) <= 2
        /\ bars.cached # None =>
              \A i \in 1..Len(bars.missing_ranges) :
                  \/ bars.missing_ranges[i][2] < bars.cached[1]
                  \/ bars.missing_ranges[i][1] > bars.cached[2]

\* C19: get_missing_date_ranges returns at most two sub-windows,
\* none of which overlaps [cached_min, cached_max], and no cycle ever fetches
\* a bar for a hole inside the cached range.
C19_HoleNeverFetched ==
    /\ EdgesOnly
    /\ bars.pc = "save" => DataTimestamps \cap Holes = {}

\* An entry with its title, summary and link and a timestamp that parses.
WellFormed(article) ==
    /\ {"title", "summary", "link"} \subseteq DOMAIN article
    /\ \/ "pubDate" \in DOMAIN article /\ Len(article.pubDate) = 1
       \/ /\ "pubDate" \notin DOMAIN article
          /\ "providerPublishTime" \in DOMAIN article
          /\ Len(article.providerPublishTime) = 1

WellFormedBatch ==
    SelectSeq(SubSeq(news.news_data, 1,
                     Min(Len(news.news_data), max_articles)), WellFormed)

\* C20: in fetch_news_for_symbol an upstream article with a malformed
\* timestamp or a missing field is left out of the processed batch, and every
\* other article of the batch is processed, in order, and handed to the merge.
C20_MalformedExcluded ==
    news.pc = "save" =>
        news.news_articles =
            [i \in 1..Len(WellFormedBatch) |->
                ProcessArticle(WellFormedBatch[i], symbols[news.sym], now)]

\* The table the pair of merges was applied to, once both have returned.
Merged ==
    IF rerun.kind = "news" THEN gold_news ELSE gold_prices[rerun.kind]

\* The key columns of a batch row: the timestamp of a bar, the
\* content_hash and the link of an article.
SharesKey(r1, r2) ==
    IF rerun.kind = "news"
    THEN r1.content_hash = r2.content_hash \/ r1.link = r2.link
    ELSE r1.Datetime = r2.Datetime

BatchRows ==
    {rerun.first[i] : i \in 1..Len(rerun.first)}
        \cup {rerun.second[i] : i \in 1..Len(rerun.second)}

BatchesAgree == \A r1, r2 \in BatchRows : SharesKey(r1, r2) => r1 = r2

\* A stored row without the id the table assigned to it.
WithoutId(r) == [f \in DOMAIN r \ {"id"} |-> r[f]]

BothReturned ==
    /\ rerun.phase = 2
    /\ rerun.begun = {"bars", "news"}
    /\ bars.pc = "idle"
    /\ news.pc = "idle"

MergedWhole ==
    IF rerun.kind = "news"
    THEN save_news_to_database(rerun.before, rerun.first, now, "none").table
    ELSE save_to_database(rerun.before, rerun.first, TRUE)

\* C23: after a merge that hit a store error the table holds all rows of
\* the unit or none of them, for a bars sub-window in save_to_database and
\* for a symbol's batch in save_news_to_database.
C23_MergeAtomic ==
    rerun.phase = 1 /\ rerun.dberr # "none" =>
        Merged = rerun.before \/ Merged = MergedWhole

\* The aborted cycle's successor has returned.
FreshReturned ==
    /\ rerun.phase = 2
    /\ rerun.stage = "fresh"
    /\ bars.pc = "idle"
    /\ news.pc = "idle"

SameTriple(r, c) ==
    /\ r.title = c.title
    /\ r.summary = c.summary
    /\ r.link = c.link

\* C25: two articles, a stored one and a candidate or two candidates, have
\* the same content_hash if and only if they have the same title, the same
\* summary and the same link.
C25_HashIdentifiesTriple ==
    news.pc = "save" =>
        \A i \in 1..Len(Candidates) :
            /\ \A r \in gold_news :
                  r.content_hash = Candidates[i].content_hash
                      <=> SameTriple(r, Candidates[i])
            /\ \A j \in 1..Len(Candidates) :
                  Candidates[j].content_hash = Candidates[i].content_hash
                      <=> SameTriple(Candidates[j], Candidates[i])

\* C26: every bar a bars cycle writes has its timestamp inside one of the
\* sub-windows get_missing_date_ranges returned; no bar inside the cached
\* coverage, cached_min and cached_max included, is fetched or rewritten.
C26_OnlyMissingDelta ==
    bars.pc \in {"save", "saved"} =>
        \A t \in DataTimestamps :
            /\ \E i \in 1..Len(bars.missing_ranges) :
                  /\ bars.missing_ranges[i][1] <= t
                  /\ t <= bars.missing_ranges[i][2]
            /\ bars.cached # None =>
                  t < bars.cached[1] \/ t > bars.cached[2]

\* Every sub-window the resolver returned lies inside the request.
InsideRequest ==
    \A i \in 1..Len(bars.missing_ranges) :
        /\ bars.start_date <= bars.missing_ranges[i][1]
        /\ bars.missing_ranges[i][2] <= bars.end_date

\* The request ends before the coverage or starts after it, with more than
\* the offset in between.
RequestOffCoverage ==
    /\ bars.cached # None
    /\ \/ bars.end_date < bars.cached[1] - EpsilonMinutes
       \/ bars.start_date > bars.cached[2] + EpsilonMinutes

\* C27 (as stated): every sub-window returned by get_missing_date_ranges
\* lies inside the requested interval, for every request and coverage.
C27_InsideRequest ==
    bars.pc = "resolved" => InsideRequest

\* C27 (amended): every sub-window lies inside the requested interval when
\* the table is empty or the request reaches the coverage; a request that
\* lies entirely before cached_min or entirely after cached_max gets the one
\* sub-window from its own far bound to the edge of the coverage.
C27_InsideRequestOrUpToCoverage ==
    bars.pc = "resolved" =>
        IF RequestOffCoverage
        THEN bars.missing_ranges =
                 IF bars.end_date < bars.cached[1]
                 THEN << <<bars.start_date,
                           bars.cached[1] - EpsilonMinutes>> >>
                 ELSE << <<bars.cached[2] + EpsilonMinutes,
                           bars.end_date>> >>
        ELSE InsideRequest

C27_Witness ==
    /\ bars.pc = "resolved"
    /\ RequestOffCoverage
    /\ bars.end_date < bars.cached[1]
    /\ bars.start_date < bars.end_date
    /\ bars.cached[1] < bars.cached[2]

\* The provider's bars of an interval that lie within the table's coverage.
UpstreamWithinCoverage(interval) ==
    {BarTime(interval, k) : k \in 1..NumBars} \cap
        (SetMin(Timestamps(gold_prices[interval]))
            ..SetMax(Timestamps(gold_prices[interval])))

C29_EpsilonIsBarInterval ==
    bars.pc = "resolved" /\ bars.cached # None =>
        \A i \in 1..Len(bars.missing_ranges) :
            \/ bars.missing_ranges[i][2]
                   = bars.cached[1] - BarStep(intervals[bars.interval])
            \/ bars.missing_ranges[i][1]
                   = bars.cached[2] + BarStep(intervals[bars.interval])

\* C30: every sub-window (s, e) returned by get_missing_date_ranges has
\* s <= e, whatever the resolution of the request bounds, also when
\* start_date is less than a minute before cached_min or end_date less than
\* a minute after cached_max.
C30_SubWindowsWellFormed ==
    bars.pc = "resolved" =>
        \A i \in 1..Len(bars.missing_ranges) :
            bars.missing_ranges[i][1] <= bars.missing_ranges[i][2]

\* The rows a frame writes, as a set.
FrameRows(data) ==
    {[datetime |-> data[i].Datetime, ohlcv |-> data[i].OHLCV] :
        i \in 1..Len(data)}

\* C31: two cycles of the same feed running at once, under every
\* interleaving of their coverage reads, upstream fetches and store writes,
\* never leave two bars with the same timestamp in an interval table nor
\* two articles with the same content_hash in gold_news.
C31_NoDuplicateUnderRace ==
    /\ \A iv \in IntervalNames : NoDuplicateBars(gold_prices[iv])
    /\ NoDuplicateArticles(gold_news)

\* Both threads have fetched the same bar of the same interval, in
\* different revisions, and both have written it.
C31_Witness ==
    /\ rerun.feed = "bars"
    /\ bars.pc = "saved" /\ rerun.other_bars.pc = "saved"
    /\ bars.dbok /\ rerun.other_bars.dbok
    /\ bars.interval = rerun.other_bars.interval
    /\ \E r1 \in FrameRows(bars.data), r2 \in FrameRows(rerun.other_bars.data) :
          r1.datetime = r2.datetime /\ r1.ohlcv # r2.ohlcv

\* C32: within one bars cycle and one interval the resolver is evaluated
\* exactly once, before any fetch of that interval; the sub-windows are
\* fetched in the order returned; and a merge is performed only for a
\* sub-window whose fetch returned a non-empty result, directly after that
\* fetch.  Step by step: `resolve` is entered from idle or for the next
\* interval, and left only for `resolved`; from then on the sub-windows of
\* the interval stay as resolved; the provider is called only at `fetch`
\* and `retry`; idx starts at 1 and goes up by one; `save` is entered only
\* by a call that returned rows, and left only by the merge; and the store
\* changes in no other step.
C32_ResolveThenFetchAndMerge ==
    [][/\ (bars'.pc = "resolve" /\ bars' # bars) =>
             \/ bars.pc = "idle" /\ bars'.interval = 1
             \/ bars.pc # "idle" /\ bars'.interval = bars.interval + 1
       /\ (bars.pc = "resolve" /\ bars' # bars) =>
             bars'.pc = "resolved" /\ bars'.interval = bars.interval
       /\ (bars.pc \notin {"idle", "resolve"}
             /\ bars'.pc \notin {"idle", "resolve"}) =>
             /\ bars'.missing_ranges = bars.missing_ranges
             /\ bars'.interval = bars.interval
       /\ bars'.calls > bars.calls =>
             /\ bars.pc \in {"fetch", "retry"}
             /\ bars'.idx = bars.idx
       /\ (bars.pc = "resolved" /\ bars'.pc = "fetch") => bars'.idx = 1
       /\ (bars.pc # "resolved" /\ bars'.pc = "fetch"
             /\ bars' # bars) =>
             /\ bars.pc \in {"fetch", "retry", "saved"}
             /\ bars'.idx = bars.idx + 1
       /\ (bars'.pc = "save" /\ bars' # bars) =>
             /\ bars.pc \in {"fetch", "retry"}
             /\ bars'.calls = bars.calls + 1
             /\ bars'.idx = bars.idx
             /\ Len(bars'.data) > 0
       /\ (bars.pc = "save" /\ bars' # bars) => bars'.pc = "saved"
       /\ bars'.pc = "saved" /\ bars' # bars => bars.pc = "save"
       /\ gold_prices' # gold_prices =>
             /\ bars.pc = "save" /\ bars'.pc = "saved"
             /\ \A iv \in IntervalNames \ {intervals[bars.interval]} :
                   gold_prices'[iv] = gold_prices[iv]]_vars

\* The second of two sub-windows of the second interval has been merged.
C32_Witness ==
    /\ bars.pc = "saved"
    /\ bars.dbok
    /\ bars.interval = 2
    /\ bars.idx = 2
    /\ Len(bars.missing_ranges) = 2

\* results.values() of the symbols up to the i-th, summed.
RECURSIVE SumResults(_)
SumResults(i) ==
    IF i = 0 THEN 0 ELSE news.results[symbols[i]] + SumResults(i - 1)

\* C33: fetch_and_cache_gold_news returns a mapping with exactly one entry
\* per tracked symbol, whose value is the number of rows newly inserted
\* into gold_news for that symbol in this cycle (0 for a symbol whose fetch
\* failed); with a single writer the sum of the values equals the growth of
\* the gold_news row count over the cycle.
C33_ResultsCountNewRows ==
    /\ news.pc = "record" =>
          /\ news.results[symbols[news.sym]] =
                Cardinality(gold_news) - Cardinality(news.before)
          /\ symbols[news.sym] \in news.failed =>
                news.results[symbols[news.sym]] = 0
    /\ news.pc = "done" =>
          /\ DOMAIN news.results = SymbolNames
          /\ SumResults(Len(symbols)) = Cardinality(gold_news) - rerun.rows

\* The second run of SpecAudit has returned.
SecondReturned ==
    /\ rerun.phase = 2
    /\ rerun.feed = "bars" => bars.pc = "idle"
    /\ rerun.feed = "news" => news.pc = "idle"

\* C34: the audit log never influences ingestion: two runs of the same
\* cycle from stores that differ only in the contents of news_fetch_history
\* resolve the same sub-windows and make the same upstream calls, in the
\* same order, and end with the same bar tables and the same gold_news.
C34_AuditLogNotRead ==
    /\ rerun.phase = 2 =>
          /\ Len(rerun.trace) <= Len(rerun.first)
          /\ rerun.trace = SubSeq(rerun.first, 1, Len(rerun.trace))
    /\ SecondReturned =>
          /\ rerun.trace = rerun.first
          /\ <<gold_prices, gold_news>> = rerun.snap

\* The second run has returned after it changed the tables, from an audit
\* log that differed from the first run's.
C34_Witness ==
    /\ SecondReturned
    /\ rerun.snap # rerun.start
    /\ Len(rerun.first) >= 2

\* The coverage of a table that holds bars was read as None: the read met
\* a store error.  The table is as it was at the read until the merge.
CoverageReadFailed ==
    /\ bars.pc \in {"resolved", "fetch", "retry", "save"}
    /\ bars.cached = None
    /\ CurrentTable # {}

\* C35: if reading the coverage fails with a store error,
\* get_cached_date_range reports no coverage and get_missing_date_ranges
\* returns the whole requested window [(start_date, end_date)], exactly as
\* for an empty store; the cycle goes on to fetch that window instead of
\* raising or skipping the interval.
C35_ReadErrorRefetchesWindow ==
    /\ [](CoverageReadFailed =>
            /\ bars.missing_ranges = << <<bars.start_date, bars.end_date>> >>
            /\ bars.missing_ranges =
                  get_missing_date_ranges(get_cached_date_range({}, TRUE),
                                          bars.start_date, bars.end_date))
    /\ [][(CoverageReadFailed /\ bars.pc = "resolved" /\ bars' # bars) =>
             /\ bars'.pc = "fetch"
             /\ bars'.idx = 1
             /\ bars'.interval = bars.interval
             /\ bars'.missing_ranges = bars.missing_ranges]_vars

\* The whole window is about to be requested for a table that holds bars.
C35_Witness ==
    /\ CoverageReadFailed
    /\ bars.pc = "fetch"
    /\ CurrentRange = <<bars.start_date, bars.end_date>>

\* C36: fetch_gold_data enters its retry loop only when the first attempt
\* raised an error.  A first attempt that returns an empty result without
\* error ends the unit at once: the cycle goes on to the next unit with no
\* retry, no backoff sleep and no store write.  An empty result returned
\* during a retry counts as a failed attempt: while the budget lasts the
\* loop stays in place for the next retry, having slept its backoff, and
\* the store is not written.
C36_RetryOnlyAfterError ==
    [][/\ (bars'.pc = "retry" /\ bars.pc # "retry") =>
             bars.pc = "fetch" /\ rerun'.last = "raise"
       /\ (bars.pc = "fetch" /\ bars' # bars /\ rerun'.last = "raise") =>
             bars'.pc = "retry"
       /\ (bars.pc = "fetch" /\ bars' # bars /\ rerun'.last = "empty") =>
             /\ BarsContinues
             /\ bars.backoff = 0 /\ bars.retries = 0
             /\ gold_prices' = gold_prices
       /\ (bars.pc = "retry" /\ bars'.calls = bars.calls + 1
             /\ rerun'.last = "empty") =>
             /\ bars'.pc = "retry"
             /\ bars'.retries = bars.retries + 1
             /\ bars'.idx = bars.idx /\ bars'.interval = bars.interval
             /\ bars'.backoff = bars.backoff + RetrySleep(bars'.retries)
             /\ gold_prices' = gold_prices]_vars

\* A retry has returned an empty result and the loop has a retry left, in
\* a cycle in which an empty first attempt has ended an earlier sub-window.
C36_Witness ==
    /\ bars.pc = "retry"
    /\ rerun.last = "empty" /\ rerun.at = "retry"
    /\ RetryBudgetLeft(bars.retries)
    /\ rerun.ended # {}

\* C37: when use_mock_data is set, a bars cycle never calls the real
\* upstream provider (ticker.history), whatever error occurs while the
\* mock data is generated.
C37_MockNeverCallsProvider == bars.calls = 0


====
